---------------------------- MODULE Spec2Model ----------------------------
(***************************************************************************)
(* A model of the traffic simulation: the road grid (simulation/grid.py),  *)
(* the traffic light, pedestrian crossing, parking and vehicle agents      *)
(* (agents/*.py) and the orchestrator's tick loop                          *)
(* (simulation/simulation.py, simulation/agent_factory.py).                *)
(*                                                                         *)
(* Specifications:                                                         *)
(*   Spec         run_simulation_without_parking, a short run with several *)
(*                vehicles                                                 *)
(*   SpecRoute    run_simulation_without_parking, one vehicle followed     *)
(*                from its entry point to an exit                          *)
(*   SpecLight    one TrafficLightAgent of any id and durations of a small *)
(*                range, driven by handle_update only                      *)
(*   SpecLot      one ParkingAgent, driven by updates and parking requests *)
(*   SpecParking  run_simulation_with_parking, a short run with two        *)
(*                vehicles                                                 *)
(*   SpecStay     run_simulation_with_parking, one vehicle followed        *)
(*                through a parking stay to an exit                        *)
(*   SpecGreen    one vehicle on the network with every light held green   *)
(*                and no crossing active                                   *)
(*   SpecTurn     one vehicle followed from its entry point among standing *)
(*                vehicles                                                 *)
(*   SpecSize     run_simulation_without_parking from its first statement, *)
(*                for several size classes                                 *)
(*   SpecFleet    run_simulation_without_parking, two vehicles followed    *)
(*                from their entry points to the exits                     *)
(*   SpecGrid     initialize_grid for the size classes small, medium and   *)
(*                large                                                    *)
(***************************************************************************)
EXTENDS Integers, Sequences, FiniteSets, TLC

(***************************************************************************)
(* Bounds of the model (not program constants).                            *)
(***************************************************************************)
\* light ids 1..MaxLightId and durations 1..MaxDuration in SpecLight
MaxLightId == 4
MaxDuration == 3
\* number of handle_update messages a light of SpecLight is followed for
MaxLightUpdates == 9
\* Spec: ticks of the run, vehicles spawned in it, crossing activations in it
SimulationTime == 4
MaxVehicles == 3
MaxActivations == 1
\* SpecRoute: the same three bounds of its longer run
RouteTime == 12
RouteVehicles == 1
RouteActivations == 1
\* the largest value drawn for a lot's int(random.gauss(...))
MaxStay == 3
\* SpecLot: the lot's capacity, its initial occupancy in tenths, the average
\* stay, the vehicles that send requests to it and the ticks it runs
MaxCapacity == 3
MaxTenths == 12
MaxAvgParkingTime == 2
MaxLotVehicles == 2
MaxLotTime == 3
\* SpecParking: ticks, vehicles and crossing activations of a run with parking
ParkingTime == 4
ParkingVehicles == 2
ParkingActivations == 0
\* SpecStay: the same for the run long enough for a parking stay and the way
\* to an exit after it
StayTime == 15
StayVehicles == 1
StayActivations == 0
\* the largest parking_delay_steps a run is started with
MaxDelay == 2
\* SpecGreen: the ticks the single vehicle is followed for
GreenTime == 26
\* SpecTurn: the updates the vehicle is followed for
TurnTime == 8
\* SpecSize: ticks of the run, vehicles spawned in it, crossing activations in it
SizeTime == 3
SizeVehicles == 2
SizeActivations == 0
\* SpecFleet: ticks of the run, vehicles spawned in it, crossing activations in it
FleetTime == 12
FleetVehicles == 2
FleetActivations == 0

(***************************************************************************)
(* The road grid: RoadGrid._build_grid for initialize_grid("small").       *)
(***************************************************************************)
Rows == 10
Cols == 15

Cells == (0 .. Rows - 1) \X (0 .. Cols - 1)

\* Python's round() of the exact quotient num/den: half rounds to even
Round(num, den) ==
    LET q == num \div den
        rem == num % den
    IN  IF 2 * rem > den \/ (2 * rem = den /\ q % 2 = 1) THEN q + 1 ELSE q

Clamp(lo, hi, x) == IF x < lo THEN lo ELSE IF x > hi THEN hi ELSE x

\* _frac_row / _frac_col of a fraction given in hundredths
_frac_row(pct) == Clamp(0, Rows - 1, Round(pct * (Rows - 1), 100))
_frac_col(pct) == Clamp(0, Cols - 1, Round(pct * (Cols - 1), 100))

top_r == _frac_row(10)
bottom_r == _frac_row(90)
mid_r == _frac_row(50)
left_c == 0
right_c == Cols - 1
left_mid_c == _frac_col(20)
right_mid_c == _frac_col(80)

\* direction_offsets with steps of two cells to the east and to the west
direction_offsets_far ==
    [northbound |-> <<-1, 0>>, southbound |-> <<1, 0>>,
     eastbound |-> <<0, 2>>, westbound |-> <<0, -2>>]

direction_offsets ==
    [northbound |-> <<-1, 0>>, southbound |-> <<1, 0>>,
     eastbound |-> <<0, 1>>, westbound |-> <<0, -1>>]

Directions == DOMAIN direction_offsets

\* opposite_directions with no direction the opposite of any
opposite_directions_none == [d \in Directions |-> "none"]

opposite_directions ==
    [northbound |-> "southbound", southbound |-> "northbound",
     eastbound |-> "westbound", westbound |-> "eastbound"]

\* step 3 of _build_grid: the road laid last on a cell owns it
\* (<<cell_type, lanes, direction>>)
RoadLayer(r, c) ==
    IF c = right_mid_c THEN <<"road", 1, "southbound">>
    ELSE IF c = left_mid_c THEN <<"road", 1, "northbound">>
    ELSE IF r = mid_r /\ c >= 1 /\ c <= Cols - 2 THEN <<"road", 1, "eastbound">>
    ELSE IF c = right_c THEN <<"road", 2, "northbound">>
    ELSE IF c = left_c THEN <<"road", 2, "southbound">>
    ELSE IF r = bottom_r THEN <<"road", 1, "eastbound">>
    ELSE IF r = top_r THEN <<"road", 1, "westbound">>
    ELSE <<"empty", 0, "none">>

\* steps 4 and 5 of _build_grid
TrafficLightCells ==
    {<<0, 0>>, <<0, right_c>>, <<Rows - 1, 0>>, <<Rows - 1, right_mid_c>>}

crossing_cols_fractions == {10, 30, 70, 90}

CrossingCells ==
    {<<r, _frac_col(f)>> : r \in {top_r, bottom_r, mid_r}, f \in crossing_cols_fractions}
    \cup {<<_frac_row(25), left_c>>, <<_frac_row(75), right_c>>}

\* add_street_parking
intersections == {top_r, bottom_r, mid_r} \X {left_c, right_c, left_mid_c, right_mid_c}

BuildingCell == <<_frac_row(45), _frac_col(53)>>

StreetParkingCells ==
    {p \in Cells :
        /\ p[1] \in {top_r, bottom_r, mid_r} \/ p[2] \in {left_c, right_c, left_mid_c, right_mid_c}
        /\ p \notin intersections
        /\ RoadLayer(p[1], p[2])[1] = "road"
        /\ p \notin TrafficLightCells
        /\ p \notin CrossingCells}

\* the grid as built: one RoadCell per position
grid ==
    [p \in Cells |->
        LET base == RoadLayer(p[1], p[2])
        IN  [cell_type |-> IF p = BuildingCell THEN "building" ELSE base[1],
             lanes |-> base[2],
             directions |-> IF base[3] = "none" THEN {} ELSE {base[3]},
             traffic_light |-> p \in TrafficLightCells,
             pedestrian_crossing |-> p \in CrossingCells,
             parking |-> p \in StreetParkingCells \/ p = BuildingCell,
             parking_capacity |->
                IF p = BuildingCell THEN 10
                ELSE IF p \in StreetParkingCells THEN base[2] ELSE 0]]

InGrid(r, c) == 0 <= r /\ r < Rows /\ 0 <= c /\ c < Cols

\* position of p in the row-major scan of the cells of S, from 1
RowMajorIndex(S, p) ==
    Cardinality({q \in S : q[1] < p[1] \/ (q[1] = p[1] /\ q[2] <= p[2])})

\* extract_special_positions / _get_traffic_light_positions, as index -> cell
traffic_light_positions ==
    [i \in 1 .. Cardinality(TrafficLightCells) |->
        CHOOSE p \in TrafficLightCells : RowMajorIndex(TrafficLightCells, p) = i]

crossing_positions ==
    [i \in 1 .. Cardinality(CrossingCells) |->
        CHOOSE p \in CrossingCells : RowMajorIndex(CrossingCells, p) = i]

(***************************************************************************)
(* State.                                                                  *)
(***************************************************************************)
VARIABLES
    t,                  \* the orchestrator's loop variable (the tick)
    pc,                 \* the orchestrator's position in the loop body
    idx,                \* position of "for vid in vehicle_ids" in the tick
    road_size,          \* run parameter: the size class of the road network
    simulation_time,    \* run parameter: number of ticks
    with_parking,       \* run parameter of run_simulation
    lights,             \* TrafficLightAgent instances: id -> fields
    traffic_light_states, \* the tick's snapshot: light id -> published state
    crossings,          \* PedestrianCrossingAgent instances: id -> fields
    crossing_states,    \* the tick's snapshot: crossing id -> active
    lots,               \* ParkingAgent instances: parking_id -> fields
    vehicle,            \* VehicleAgent instances: vehicle_id -> fields
    vehicle_ids,        \* the orchestrator's list of active vehicles
    vehicles_exiting,   \* vehicle id -> tick of removal
    total_vehicles,
    exited_vehicles,
    vehicle_wait_times,
    _all_vehicle_positions,           \* VehicleAgent class attribute
    _parking_delay_cells,             \* VehicleAgent class attribute
    _parking_positions_to_agent_ids,  \* VehicleAgent class attribute
    PARKING_DELAY_STEPS,              \* VehicleAgent class attribute
    budget,             \* what is left of the run's bounds: spawns, activations
    light_run,          \* observer: per light, the states published in a row
    parking_run,        \* observer: per vehicle, its parking states in a row
    last                \* observer: what the last handler run did

vars == <<t, pc, idx, road_size, simulation_time, with_parking, lights, traffic_light_states,
          crossings, crossing_states, lots, vehicle, vehicle_ids, vehicles_exiting,
          total_vehicles, exited_vehicles, vehicle_wait_times,
          _all_vehicle_positions, _parking_delay_cells,
          _parking_positions_to_agent_ids, PARKING_DELAY_STEPS, budget,
          light_run, parking_run, last>>

Range(s) == {s[i] : i \in DOMAIN s}

\* a dict without key k / with k set to x
DictDel(d, k) == [j \in DOMAIN d \ {k} |-> d[j]]
DictSet(d, k, x) == [j \in DOMAIN d \cup {k} |-> IF j = k THEN x ELSE d[j]]
EmptyDict == [j \in {} |-> 0]

\* TrafficLightAgent.__init__ with the light id itself as the initial timer
TrafficLightAgent_unwrapped(light_id, red_duration, green_duration) ==
    LET current_state == IF light_id % 3 = 0 THEN "green" ELSE "red"
    IN  [light_id |-> light_id,
         red_duration |-> red_duration,
         green_duration |-> green_duration,
         current_state |-> current_state,
         timer |-> light_id]

(***************************************************************************)
(* TrafficLightAgent                                                       *)
(***************************************************************************)
\* TrafficLightAgent.__init__
TrafficLightAgent(light_id, red_duration, green_duration) ==
    LET current_state == IF light_id % 3 = 0 THEN "green" ELSE "red"
    IN  [light_id |-> light_id,
         red_duration |-> red_duration,
         green_duration |-> green_duration,
         current_state |-> current_state,
         timer |-> IF current_state = "red" THEN light_id % red_duration
                   ELSE light_id % green_duration]

\* TrafficLightAgent.handle_update with > where the code has >=
TrafficLightHandleUpdate_strict(l) ==
    LET timer == l.timer + 1
    IN  IF l.current_state = "red" /\ timer > l.red_duration
            THEN [l EXCEPT !.current_state = "green", !.timer = 0]
        ELSE IF l.current_state = "green" /\ timer > l.green_duration
            THEN [l EXCEPT !.current_state = "red", !.timer = 0]
        ELSE [l EXCEPT !.timer = timer]

\* TrafficLightAgent.handle_update: the agent after one UpdateCommand
TrafficLightHandleUpdate(l) ==
    LET timer == l.timer + 1
    IN  IF l.current_state = "red" /\ timer >= l.red_duration
            THEN [l EXCEPT !.current_state = "green", !.timer = 0]
        ELSE IF l.current_state = "green" /\ timer >= l.green_duration
            THEN [l EXCEPT !.current_state = "red", !.timer = 0]
        ELSE [l EXCEPT !.timer = timer]

\* the observer's record of a light: the state last published, for how many
\* updates in a row, whether that run began with a change of state, and the
\* length of the last run that began and ended with a change (0: none yet)
ObserveLight(run, published) ==
    IF run.n = 0 THEN [state |-> published, len |-> 1, whole |-> FALSE, n |-> 1,
                       last_state |-> "none", last_len |-> 0]
    ELSE IF run.state = published
        THEN [run EXCEPT !.len = @ + 1, !.n = @ + 1]
    ELSE [state |-> published, len |-> 1, whole |-> TRUE, n |-> run.n + 1,
          last_state |-> IF run.whole THEN run.state ELSE run.last_state,
          last_len |-> IF run.whole THEN run.len ELSE run.last_len]

NoRun == [state |-> "none", len |-> 0, whole |-> FALSE, n |-> 0,
          last_state |-> "none", last_len |-> 0]

\* the observer's record of a vehicle: the parking state its last handle_update
\* left it in, for how many updates in a row, the state and length of the run
\* before, and the state of the run before that
ObserveParking(runs, vid, state) ==
    IF vid \notin DOMAIN runs
        THEN [state |-> state, len |-> 1, prev_state |-> "none", prev_len |-> 0,
              prev2_state |-> "none"]
    ELSE IF runs[vid].state = state
        THEN [runs[vid] EXCEPT !.len = @ + 1]
    ELSE [state |-> state, len |-> 1, prev_state |-> runs[vid].state,
          prev_len |-> runs[vid].len, prev2_state |-> runs[vid].prev_state]

(***************************************************************************)
(* PedestrianCrossingAgent                                                 *)
(***************************************************************************)
\* run parameter pedestrian_crossing_timing: (one lane, several lanes)
pedestrian_crossing_timing == <<1, 3>>

\* register_pedestrian_crossings and PedestrianCrossingAgent.__init__: the
\* factory passes crossing_id, lanes and active_duration, never a position
PedestrianCrossingAgent(crossing_id, lanes, active_duration) ==
    [crossing_id |-> crossing_id,
     has_position |-> FALSE,
     lanes |-> lanes,
     active_duration |-> active_duration,
     active |-> FALSE,
     timer |-> 0]

register_pedestrian_crossings(timing) ==
    [i \in DOMAIN crossing_positions |->
        LET lanes == grid[crossing_positions[i]].lanes
        IN  PedestrianCrossingAgent(i, lanes, IF lanes > 1 THEN timing[2] ELSE timing[1])]

\* handle_update deactivating only when the timer is past active_duration
CrossingHandleUpdate_late(c, clear, draw) ==
    IF c.active
        THEN IF c.timer + 1 > c.active_duration
                THEN [c EXCEPT !.active = FALSE, !.timer = 0]
                ELSE [c EXCEPT !.timer = c.timer + 1]
    ELSE IF c.has_position
        THEN IF clear /\ draw THEN [c EXCEPT !.active = TRUE, !.timer = 0] ELSE c
    ELSE IF draw THEN [c EXCEPT !.active = TRUE, !.timer = 0] ELSE c

\* PedestrianCrossingAgent.handle_update; clear: no vehicle registered on the
\* crossing's position; draw: random.random() < 0.3
CrossingHandleUpdate(c, clear, draw) ==
    IF c.active
        THEN IF c.timer + 1 >= c.active_duration
                THEN [c EXCEPT !.active = FALSE, !.timer = 0]
                ELSE [c EXCEPT !.timer = c.timer + 1]
    ELSE IF c.has_position
        THEN IF clear /\ draw THEN [c EXCEPT !.active = TRUE, !.timer = 0] ELSE c
    ELSE IF draw THEN [c EXCEPT !.active = TRUE, !.timer = 0] ELSE c

(***************************************************************************)
(* ParkingAgent                                                            *)
(***************************************************************************)
\* the keys of parked_vehicles: str(AgentId) of a vehicle, or the name the
\* constructor gives an initial occupant
VehicleKey(vehicle_id) == <<"vehicle", vehicle_id, 0>>
InitialKey(i, parking_id) == <<"initial_vehicle", i, parking_id>>

\* ParkingAgent.__init__; ends: i -> random.randint(1, avg_parking_time * 2)
ParkingAgent(parking_id, capacity, avg_parking_time, position, initial_occupancy, ends) ==
    [parking_id |-> parking_id,
     capacity |-> capacity,
     avg_parking_time |-> avg_parking_time,
     position |-> position,
     parked_vehicles |->
        [k \in {InitialKey(i, parking_id) : i \in 0 .. initial_occupancy - 1} |-> ends[k[2]]]]

\* has_space with <= where the code has <
has_space_lenient(lot) == Cardinality(DOMAIN lot.parked_vehicles) <= lot.capacity

\* ParkingAgent.handle_parking_request: has_space
has_space(lot) == Cardinality(DOMAIN lot.parked_vehicles) < lot.capacity

\* ParkingAgent.handle_parking_request with the vehicle recorded whether or
\* not there is space
ParkingHandleRequest_always(lot, vehicle_id, current_time, gauss) ==
    [lot EXCEPT !.parked_vehicles =
        DictSet(@, vehicle_id, current_time + (IF gauss > 1 THEN gauss ELSE 1))]

\* ParkingAgent.handle_parking_request; gauss: int(random.gauss(...)).
\* The ParkingResponseCommand it sends carries accepted = has_space(lot).
ParkingHandleRequest(lot, vehicle_id, current_time, gauss) ==
    IF has_space(lot)
        THEN LET parking_end_time == current_time + (IF gauss > 1 THEN gauss ELSE 1)
             IN  [lot EXCEPT !.parked_vehicles = DictSet(@, vehicle_id, parking_end_time)]
    ELSE lot

\* handle_update keeping the occupants whose exit tick is the current tick
ParkingHandleUpdate_strict(lot, current_time) ==
    LET vehicles_to_remove ==
            {k \in DOMAIN lot.parked_vehicles : current_time > lot.parked_vehicles[k]}
    IN  [lot EXCEPT !.parked_vehicles =
            [k \in DOMAIN lot.parked_vehicles \ vehicles_to_remove |-> lot.parked_vehicles[k]]]

\* ParkingAgent.handle_update
ParkingHandleUpdate(lot, current_time) ==
    LET vehicles_to_remove ==
            {k \in DOMAIN lot.parked_vehicles : current_time >= lot.parked_vehicles[k]}
    IN  [lot EXCEPT !.parked_vehicles =
            [k \in DOMAIN lot.parked_vehicles \ vehicles_to_remove |-> lot.parked_vehicles[k]]]

\* register_parking_agents: the cells with a parking feature, numbered row by row
ParkingCells == {p \in Cells : grid[p].parking}

parking_positions ==
    [i \in 1 .. Cardinality(ParkingCells) |->
        CHOOSE p \in ParkingCells : RowMajorIndex(ParkingCells, p) = i]

\* register_parking_agents: initial_vehicles = min(capacity, int(capacity *
\* initial_occupancy)), the fraction given in tenths
initial_vehicles(capacity, tenths) ==
    LET n == (capacity * tenths) \div 10
    IN  IF capacity < n THEN capacity ELSE n

(***************************************************************************)
(* VehicleAgent                                                            *)
(***************************************************************************)
\* the parking_duration default of VehicleAgent.__init__, which
\* create_new_vehicle never overrides
parking_duration == 5

\* _all_vehicle_positions.get(p, [])
Occupants(reg, p) == IF p \in DOMAIN reg THEN reg[p] ELSE <<>>

\* if p not in reg: reg[p] = [] ; reg[p].append(id)
Register(reg, p, id) == DictSet(reg, p, Append(Occupants(reg, p), id))

\* list.remove: the list without the first occurrence of id
RemoveFirst(s, id) ==
    LET i == CHOOSE i \in 1 .. Len(s) : s[i] = id /\ \A j \in 1 .. i - 1 : s[j] # id
    IN  SubSeq(s, 1, i - 1) \o SubSeq(s, i + 1, Len(s))

\* if p in reg and id in reg[p]: reg[p].remove(id); if not reg[p]: del reg[p]
Deregister(reg, p, id) ==
    IF p \in DOMAIN reg /\ id \in Range(reg[p])
        THEN LET rest == RemoveFirst(reg[p], id)
             IN  IF rest = <<>> THEN DictDel(reg, p) ELSE DictSet(reg, p, rest)
    ELSE reg

\* _find_random_entry_point: the cells random.choice draws from
ScannedEntryPoints ==
    {p \in Cells :
        /\ grid[p].cell_type = "road"
        /\ \/ p[1] = 0 /\ "southbound" \in grid[p].directions
           \/ p[1] = Rows - 1 /\ "northbound" \in grid[p].directions
           \/ p[1] \in 1 .. Rows - 2 /\ p[2] = 0 /\ "eastbound" \in grid[p].directions
           \/ p[1] \in 1 .. Rows - 2 /\ p[2] = Cols - 1 /\ "westbound" \in grid[p].directions}

_find_random_entry_point ==
    IF ScannedEntryPoints # {} THEN ScannedEntryPoints
    ELSE {<<0, left_c>>, <<Rows - 1, right_c>>, <<Rows - 1, left_mid_c>>, <<0, right_mid_c>>}

\* _get_direction_from_cell: the directions random.choice draws from
_get_direction_from_cell(cell) ==
    IF cell.directions = {} THEN {"eastbound"} ELSE cell.directions

\* VehicleAgent.__init__ without its registration
VehicleAgent(vehicle_id, position, direction) ==
    [vehicle_id |-> vehicle_id,
     row |-> position[1],
     col |-> position[2],
     direction |-> direction,
     wait_time |-> 0,
     parking_duration |-> parking_duration,
     is_parked |-> FALSE,
     parking_timer |-> 0,
     parking_agent_id |-> 0,
     exiting_delay |-> FALSE,
     has_exiting_delay_counter |-> FALSE,
     exiting_delay_counter |-> 0]

Position(v) == <<v.row, v.col>>

\* the cell one step from p in direction d
Ahead(p, d) == <<p[1] + direction_offsets[d][1], p[2] + direction_offsets[d][2]>>

\* the states of the data model, read off the agent's flags
ParkingState(v) ==
    IF v.is_parked THEN "Parked"
    ELSE IF v.exiting_delay THEN "ExitingDelay"
    ELSE "Driving"

\* traffic_light_states.get(f"traffic_light_{index + 1}", "red") for the light
\* at p, and crossing_states.get(f"crossing_{index + 1}", False)
LightIdAt(p) == RowMajorIndex(TrafficLightCells, p)
CrossingIdAt(p) == RowMajorIndex(CrossingCells, p)

LightStateAt(tls, p) ==
    IF LightIdAt(p) \in DOMAIN tls THEN tls[LightIdAt(p)] ELSE "red"

CrossingActiveAt(cs, p) ==
    IF CrossingIdAt(p) \in DOMAIN cs THEN cs[CrossingIdAt(p)] ELSE FALSE

\* _can_move_forward
_can_move_forward(v, delay, tls, cs) ==
    LET next == Ahead(Position(v), v.direction)
    IN  IF InGrid(next[1], next[2])
            THEN IF next \in DOMAIN delay THEN FALSE
                 ELSE IF grid[next].traffic_light /\ LightStateAt(tls, next) = "red" THEN FALSE
                 ELSE IF grid[next].pedestrian_crossing /\ CrossingActiveAt(cs, next) THEN FALSE
                 ELSE TRUE
        ELSE TRUE

\* handle_update, "Check traffic lights", without the look at the own cell
LightGate_ahead(v, tls) ==
    LET next == Ahead(Position(v), v.direction)
    IN  IF next \in TrafficLightCells
            THEN ~(InGrid(next[1], next[2]) /\ LightStateAt(tls, next) = "red")
        ELSE TRUE

\* handle_update, "Check traffic lights", without the look at the next cell
LightGate_own(v, tls) ==
    IF Position(v) \in TrafficLightCells
        THEN LightStateAt(tls, Position(v)) # "red"
    ELSE TRUE

\* handle_update, "Check traffic lights": can_move after the block
LightGate(v, tls) ==
    LET next == Ahead(Position(v), v.direction)
    IN  IF Position(v) \in TrafficLightCells
            THEN LightStateAt(tls, Position(v)) # "red"
        ELSE IF next \in TrafficLightCells
            THEN ~(InGrid(next[1], next[2]) /\ LightStateAt(tls, next) = "red")
        ELSE TRUE

\* handle_update, "Check pedestrian crossings": can_move after the block
CrossingGate(v, cs) ==
    LET next == Ahead(Position(v), v.direction)
    IN  ~(next \in CrossingCells /\ CrossingActiveAt(cs, next))

\* the order in which the direction_offsets dict is iterated
DirectionOrder == <<"northbound", "southbound", "eastbound", "westbound">>

\* _get_possible_directions: the keys of the dict it returns, and
\* self.direction as it leaves it (the emergency fallback sets it)
_get_possible_directions(v, reg) ==
    LET cur == Position(v)
        is_intersection == Cardinality(grid[cur].directions) >= 2
        Candidate(d) ==
            /\ d # opposite_directions[v.direction]
            /\ InGrid(Ahead(cur, d)[1], Ahead(cur, d)[2])
            /\ grid[Ahead(cur, d)].cell_type = "road"
        has_capacity(p) ==
            \/ Len(Occupants(reg, p)) < grid[p].lanes
            \/ v.vehicle_id \in Range(Occupants(reg, p))
        direction_valid(d) ==
            \/ d \in grid[Ahead(cur, d)].directions
            \/ d = v.direction
            \/ is_intersection
        valid_adjacent_cells ==
            {d \in Directions :
                Candidate(d) /\ has_capacity(Ahead(cur, d)) /\ direction_valid(d)}
        fallback ==
            {i \in 1 .. 4 :
                /\ Candidate(DirectionOrder[i])
                /\ Len(Occupants(reg, Ahead(cur, DirectionOrder[i])))
                        < grid[Ahead(cur, DirectionOrder[i])].lanes}
    IN  IF valid_adjacent_cells # {}
            THEN [directions |-> valid_adjacent_cells, direction |-> v.direction]
        ELSE IF grid[cur].cell_type = "road" /\ fallback # {}
            THEN LET first == DirectionOrder[CHOOSE i \in fallback : \A j \in fallback : i <= j]
                 IN  [directions |-> {first}, direction |-> first]
        ELSE [directions |-> {}, direction |-> v.direction]

\* _get_next_position: every (position, direction) the random draws can give
_get_next_position(v, reg) ==
    LET cur == Position(v)
        possible == _get_possible_directions(v, reg)
        possible_directions == possible.directions
        direction == possible.direction
        turn_options == possible_directions \ {direction}
        Go(d) == [position |-> Ahead(cur, d), direction |-> d]
    IN  IF possible_directions = {}
            THEN {[position |-> cur, direction |-> direction]}
        ELSE (IF Cardinality(possible_directions) > 1 THEN {Go(d) : d \in turn_options} ELSE {})
             \cup (IF direction \in possible_directions THEN {Go(direction)}
                   ELSE {Go(d) : d \in possible_directions})

\* _is_exit_point that knows the southbound exits only
_is_exit_point_south(row, col, direction) ==
    /\ direction = "southbound"
    /\ <<row, col>> \in {<<Rows - 1, left_c>>, <<Rows - 1, right_mid_c>>}

\* _is_exit_point
exit_points ==
    {<<Rows - 1, left_c, "southbound">>, <<0, right_c, "northbound">>,
     <<0, left_mid_c, "northbound">>, <<Rows - 1, right_mid_c, "southbound">>}

_is_exit_point(row, col, direction) == <<row, col, direction>> \in exit_points

\* _should_attempt_parking, given the outcome of random.random() < parking_probability
_should_attempt_parking(v, roll) == roll /\ ~v.is_parked

\* handle_parking_response with the timer set one short of parking_duration
handle_parking_response_brief(v, delay, accepted, sender) ==
    IF accepted
        THEN [v |-> [v EXCEPT !.is_parked = TRUE,
                              !.parking_timer = v.parking_duration - 1,
                              !.parking_agent_id = sender],
              delay |-> IF Position(v) \in DOMAIN delay
                            THEN DictDel(delay, Position(v)) ELSE delay]
    ELSE [v |-> v, delay |-> delay]

\* handle_parking_response: the vehicle and _parking_delay_cells after it
handle_parking_response(v, delay, accepted, sender) ==
    IF accepted
        THEN [v |-> [v EXCEPT !.is_parked = TRUE,
                              !.parking_timer = v.parking_duration,
                              !.parking_agent_id = sender],
              delay |-> IF Position(v) \in DOMAIN delay
                            THEN DictDel(delay, Position(v)) ELSE delay]
    ELSE [v |-> v, delay |-> delay]

\* the parked branch without the mark in _parking_delay_cells
ParkedBranch_unmarked(v, reg, delay, delay_steps) ==
    LET parking_timer == v.parking_timer - 1
    IN  IF parking_timer <= 0
            THEN [v |-> [v EXCEPT !.parking_timer = parking_timer,
                                  !.is_parked = FALSE,
                                  !.parking_agent_id = 0,
                                  !.exiting_delay = TRUE],
                  delay |-> delay,
                  reg |-> Register(reg, Position(v), v.vehicle_id)]
        ELSE [v |-> [v EXCEPT !.parking_timer = parking_timer],
              delay |-> delay,
              reg |-> reg]

\* handle_update, "if self.is_parked": the branch that ends in return
ParkedBranch(v, reg, delay, delay_steps) ==
    LET parking_timer == v.parking_timer - 1
    IN  IF parking_timer <= 0
            THEN [v |-> [v EXCEPT !.parking_timer = parking_timer,
                                  !.is_parked = FALSE,
                                  !.parking_agent_id = 0,
                                  !.exiting_delay = TRUE],
                  delay |-> DictSet(delay, Position(v), delay_steps),
                  reg |-> Register(reg, Position(v), v.vehicle_id)]
        ELSE [v |-> [v EXCEPT !.parking_timer = parking_timer],
              delay |-> delay,
              reg |-> reg]

\* handle_update, "If we have an exiting delay active, count it down"
ExitingDelayCountdown(v, delay_steps) ==
    IF v.exiting_delay
        THEN LET exiting_delay_counter ==
                    (IF v.has_exiting_delay_counter THEN v.exiting_delay_counter
                     ELSE delay_steps) - 1
             IN  IF exiting_delay_counter <= 0
                    THEN [v EXCEPT !.exiting_delay = FALSE,
                                   !.has_exiting_delay_counter = FALSE,
                                   !.exiting_delay_counter = 0]
                 ELSE [v EXCEPT !.has_exiting_delay_counter = TRUE,
                                !.exiting_delay_counter = exiting_delay_counter]
    ELSE v

\* handle_update, "Attempt to park ...": the request goes out with
\* current_time 0, the lot answers, handle_parking_response runs, and only
\* then is the cell put into _parking_delay_cells
ParkingAttempt(v, delay, lts, map, delay_steps, roll, gauss) ==
    LET parking_position == Position(v)
        attempted == ~v.exiting_delay /\ _should_attempt_parking(v, roll)
    IN  IF attempted /\ parking_position \in DOMAIN map
            THEN LET parking_agent_id == map[parking_position]
                     accepted == has_space(lts[parking_agent_id])
                     answered == handle_parking_response(v, delay, accepted, parking_agent_id)
                 IN  [v |-> answered.v,
                      delay |-> DictSet(answered.delay, parking_position, delay_steps),
                      lots |-> [lts EXCEPT ![parking_agent_id] =
                                    ParkingHandleRequest(@, VehicleKey(v.vehicle_id), 0, gauss)],
                      attempted |-> attempted, requested |-> TRUE, accepted |-> accepted]
        ELSE [v |-> v, delay |-> delay, lots |-> lts,
              attempted |-> attempted, requested |-> FALSE, accepted |-> FALSE]

\* handle_update up to "Move if possible"
BeforeMove(v, reg, delay, lts, map, delay_steps, tls, cs, roll, gauss) ==
    IF v.is_parked
        THEN LET b == ParkedBranch(v, reg, delay, delay_steps)
             IN  [v |-> b.v, reg |-> b.reg, delay |-> b.delay, lots |-> lts,
                  returned |-> TRUE, attempted |-> FALSE, requested |-> FALSE,
                  accepted |-> FALSE, can_move |-> FALSE]
    ELSE LET counted == ExitingDelayCountdown(v, delay_steps)
             a == ParkingAttempt(counted, delay, lts, map, delay_steps, roll, gauss)
         IN  [v |-> a.v, reg |-> reg, delay |-> a.delay, lots |-> a.lots,
              returned |-> FALSE, attempted |-> a.attempted, requested |-> a.requested,
              accepted |-> a.accepted,
              can_move |-> LightGate(a.v, tls) /\ CrossingGate(a.v, cs)]

\* "if can_move and not getattr(self, 'exiting_delay', False)"
MoveBranch(b) == ~b.returned /\ b.can_move /\ ~b.v.exiting_delay

\* the outcomes of _get_next_position in the move branch
MoveChoices(b) ==
    IF MoveBranch(b)
        THEN _get_next_position(b.v, Deregister(b.reg, Position(b.v), b.v.vehicle_id))
    ELSE {[position |-> Position(b.v), direction |-> b.v.direction]}

\* handle_update, "Check for exiting": the registry after the vehicle at an
\* exit point has been removed from its cell
CheckForExiting(v, reg, can_move) ==
    IF _is_exit_point(v.row, v.col, v.direction) /\ can_move
        THEN Deregister(reg, Position(v), v.vehicle_id)
    ELSE reg

\* handle_update from "Move if possible" on, for one outcome of _get_next_position
AfterMove(b, choice, tls, cs) ==
    IF b.returned
        THEN [v |-> b.v, reg |-> b.reg, delay |-> b.delay, lots |-> b.lots,
              exiting |-> FALSE, forward_blocked |-> FALSE]
    ELSE IF MoveBranch(b)
        THEN LET old == Position(b.v)
                 id == b.v.vehicle_id
                 removed == Deregister(b.reg, old, id)
                 moved == [b.v EXCEPT !.row = choice.position[1],
                                      !.col = choice.position[2],
                                      !.direction = choice.direction]
                 registered ==
                    IF choice.position # old THEN Register(removed, choice.position, id)
                    ELSE removed
                 exiting == _is_exit_point(moved.row, moved.col, moved.direction)
             IN  [v |-> moved,
                  reg |-> CheckForExiting(moved, registered, b.can_move),
                  delay |-> b.delay, lots |-> b.lots,
                  exiting |-> exiting,
                  forward_blocked |-> ~_can_move_forward(b.v, b.delay, tls, cs)]
    ELSE [v |-> [b.v EXCEPT !.wait_time = @ + 1],
          reg |-> b.reg, delay |-> b.delay, lots |-> b.lots,
          exiting |-> FALSE, forward_blocked |-> FALSE]

(***************************************************************************)
(* The orchestrator: run_simulation_without_parking and                    *)
(* run_simulation_with_parking, one action per step of the loop body.      *)
(***************************************************************************)
\* register_traffic_lights
register_traffic_lights(timing) ==
    [i \in DOMAIN traffic_light_positions |-> TrafficLightAgent(i, timing[1], timing[2])]

\* the subsets of S of at most k elements
RECURSIVE SubsetsUpTo(_, _)
SubsetsUpTo(S, k) ==
    IF k = 0 \/ S = {} THEN {{}}
    ELSE LET smaller == SubsetsUpTo(S, k - 1)
         IN  smaller \cup {A \cup {x} : A \in smaller, x \in S}

\* the road cells that list as many vehicles as they have lanes, or more
FullCells(reg) ==
    {p \in DOMAIN reg : grid[p].cell_type = "road" /\ Len(reg[p]) >= grid[p].lanes}

NoLast ==
    [op |-> "none", vid |-> 0, tick |-> 0, constructed |-> FALSE,
     from |-> <<0, 0>>, to |-> <<0, 0>>,
     old_direction |-> "none", direction |-> "none",
     state_before |-> "none", state_after |-> "none",
     roll |-> FALSE, ahead_free |-> FALSE, no_direction |-> FALSE,
     fallback |-> FALSE, delay_here |-> -1, listed |-> 0,
     requested |-> FALSE, accepted |-> FALSE,
     can_move |-> FALSE, move_branch |-> FALSE, forward_blocked |-> FALSE,
     exiting |-> FALSE, wait_before |-> 0, wait_after |-> 0,
     delay_cells |-> {}, lot |-> 0, lot_before |-> EmptyDict, end_time |-> 0,
     full_at_start |-> {}]

\* the loop head that creates a vehicle in tick 0 as well
BeginTick_eager ==
    /\ pc = "begin"
    /\ t < simulation_time
    /\ LET vehicles_to_remove ==
                {vid \in DOMAIN vehicles_exiting : t >= vehicles_exiting[vid]}
           kept == SelectSeq(vehicle_ids, LAMBDA vid : vid \notin vehicles_to_remove)
           spawn == budget.spawns > 0
       IN  /\ vehicles_exiting' =
                [vid \in DOMAIN vehicles_exiting \ vehicles_to_remove |-> vehicles_exiting[vid]]
           /\ vehicle_ids' = IF spawn THEN Append(kept, t) ELSE kept
           /\ total_vehicles' = IF spawn THEN total_vehicles + 1 ELSE total_vehicles
           /\ vehicle_wait_times' =
                IF spawn THEN DictSet(vehicle_wait_times, t, 0) ELSE vehicle_wait_times
           /\ budget' = IF spawn THEN [budget EXCEPT !.spawns = @ - 1] ELSE budget
    /\ pc' = "lights"
    /\ last' = [NoLast EXCEPT !.full_at_start = FullCells(_all_vehicle_positions)]
    /\ UNCHANGED <<t, idx, road_size, simulation_time, with_parking, lights, traffic_light_states,
                   crossings, crossing_states, lots, vehicle, exited_vehicles,
                   _all_vehicle_positions, _parking_delay_cells,
                   _parking_positions_to_agent_ids, PARKING_DELAY_STEPS, light_run,
                   parking_run>>

\* the loop head that retires a flagged vehicle one tick later
BeginTick_lazy ==
    /\ pc = "begin"
    /\ t < simulation_time
    /\ LET vehicles_to_remove ==
                {vid \in DOMAIN vehicles_exiting : t > vehicles_exiting[vid]}
           kept == SelectSeq(vehicle_ids, LAMBDA vid : vid \notin vehicles_to_remove)
           spawn == t > 0 /\ budget.spawns > 0
       IN  /\ vehicles_exiting' =
                [vid \in DOMAIN vehicles_exiting \ vehicles_to_remove |-> vehicles_exiting[vid]]
           /\ vehicle_ids' = IF spawn THEN Append(kept, t) ELSE kept
           /\ total_vehicles' = IF spawn THEN total_vehicles + 1 ELSE total_vehicles
           /\ vehicle_wait_times' =
                IF spawn THEN DictSet(vehicle_wait_times, t, 0) ELSE vehicle_wait_times
           /\ budget' = IF spawn THEN [budget EXCEPT !.spawns = @ - 1] ELSE budget
    /\ pc' = "lights"
    /\ last' = [NoLast EXCEPT !.full_at_start = FullCells(_all_vehicle_positions)]
    /\ UNCHANGED <<t, idx, road_size, simulation_time, with_parking, lights, traffic_light_states,
                   crossings, crossing_states, lots, vehicle, exited_vehicles,
                   _all_vehicle_positions, _parking_delay_cells,
                   _parking_positions_to_agent_ids, PARKING_DELAY_STEPS, light_run,
                   parking_run>>

\* the loop head that creates a vehicle without counting it
BeginTick_uncounted ==
    /\ pc = "begin"
    /\ t < simulation_time
    /\ LET vehicles_to_remove ==
                {vid \in DOMAIN vehicles_exiting : t >= vehicles_exiting[vid]}
           kept == SelectSeq(vehicle_ids, LAMBDA vid : vid \notin vehicles_to_remove)
           spawn == t > 0 /\ budget.spawns > 0
       IN  /\ vehicles_exiting' =
                [vid \in DOMAIN vehicles_exiting \ vehicles_to_remove |-> vehicles_exiting[vid]]
           /\ vehicle_ids' = IF spawn THEN Append(kept, t) ELSE kept
           /\ total_vehicles' = total_vehicles
           /\ vehicle_wait_times' =
                IF spawn THEN DictSet(vehicle_wait_times, t, 0) ELSE vehicle_wait_times
           /\ budget' = IF spawn THEN [budget EXCEPT !.spawns = @ - 1] ELSE budget
    /\ pc' = "lights"
    /\ last' = [NoLast EXCEPT !.full_at_start = FullCells(_all_vehicle_positions)]
    /\ UNCHANGED <<t, idx, road_size, simulation_time, with_parking, lights, traffic_light_states,
                   crossings, crossing_states, lots, vehicle, exited_vehicles,
                   _all_vehicle_positions, _parking_delay_cells,
                   _parking_positions_to_agent_ids, PARKING_DELAY_STEPS, light_run,
                   parking_run>>

\* the loop head, the retirement of the vehicles flagged in the previous tick
\* and "Create a new vehicle every step" (create_new_vehicle registers the
\* factory; the agent is built when its first message arrives)
BeginTick ==
    /\ pc = "begin"
    /\ t < simulation_time
    /\ LET vehicles_to_remove ==
                {vid \in DOMAIN vehicles_exiting : t >= vehicles_exiting[vid]}
           kept == SelectSeq(vehicle_ids, LAMBDA vid : vid \notin vehicles_to_remove)
           spawn == t > 0 /\ budget.spawns > 0
       IN  /\ vehicles_exiting' =
                [vid \in DOMAIN vehicles_exiting \ vehicles_to_remove |-> vehicles_exiting[vid]]
           /\ vehicle_ids' = IF spawn THEN Append(kept, t) ELSE kept
           /\ total_vehicles' = IF spawn THEN total_vehicles + 1 ELSE total_vehicles
           /\ vehicle_wait_times' =
                IF spawn THEN DictSet(vehicle_wait_times, t, 0) ELSE vehicle_wait_times
           /\ budget' = IF spawn THEN [budget EXCEPT !.spawns = @ - 1] ELSE budget
    /\ pc' = "lights"
    /\ last' = [NoLast EXCEPT !.full_at_start = FullCells(_all_vehicle_positions)]
    /\ UNCHANGED <<t, idx, road_size, simulation_time, with_parking, lights, traffic_light_states,
                   crossings, crossing_states, lots, vehicle, exited_vehicles,
                   _all_vehicle_positions, _parking_delay_cells,
                   _parking_positions_to_agent_ids, PARKING_DELAY_STEPS, light_run,
                   parking_run>>

\* update_traffic_lights returning the states the lights had before the update
update_traffic_lights_stale ==
    /\ pc = "lights"
    /\ lights' = [i \in DOMAIN lights |-> TrafficLightHandleUpdate(lights[i])]
    /\ traffic_light_states' = [i \in DOMAIN lights |-> lights[i].current_state]
    /\ light_run' = [i \in DOMAIN lights |-> ObserveLight(light_run[i], lights'[i].current_state)]
    /\ pc' = "crossings"
    /\ UNCHANGED <<t, idx, road_size, simulation_time, with_parking, crossings, crossing_states,
                   lots, vehicle, vehicle_ids, vehicles_exiting, total_vehicles,
                   exited_vehicles, vehicle_wait_times, _all_vehicle_positions,
                   _parking_delay_cells, _parking_positions_to_agent_ids,
                   PARKING_DELAY_STEPS, budget, parking_run, last>>

\* update_traffic_lights: every light handles one UpdateCommand and the state
\* it prints becomes the tick's snapshot
update_traffic_lights ==
    /\ pc = "lights"
    /\ lights' = [i \in DOMAIN lights |-> TrafficLightHandleUpdate(lights[i])]
    /\ traffic_light_states' = [i \in DOMAIN lights |-> lights'[i].current_state]
    /\ light_run' = [i \in DOMAIN lights |-> ObserveLight(light_run[i], lights'[i].current_state)]
    /\ pc' = "crossings"
    /\ UNCHANGED <<t, idx, road_size, simulation_time, with_parking, crossings, crossing_states,
                   lots, vehicle, vehicle_ids, vehicles_exiting, total_vehicles,
                   exited_vehicles, vehicle_wait_times, _all_vehicle_positions,
                   _parking_delay_cells, _parking_positions_to_agent_ids,
                   PARKING_DELAY_STEPS, budget, parking_run, last>>

\* update_pedestrian_crossings; draws: the crossings whose random.random() < 0.3
update_pedestrian_crossings ==
    /\ pc = "crossings"
    /\ \E draws \in SubsetsUpTo({i \in DOMAIN crossings : ~crossings[i].active},
                                budget.activations) :
        /\ crossings' =
                [i \in DOMAIN crossings |->
                    CrossingHandleUpdate(crossings[i],
                        crossing_positions[i] \notin DOMAIN _all_vehicle_positions,
                        i \in draws)]
        /\ budget' = [budget EXCEPT !.activations = @ - Cardinality(draws)]
    /\ crossing_states' = [i \in DOMAIN crossings |-> crossings'[i].active]
    /\ pc' = IF with_parking THEN "parking" ELSE "vehicles"
    /\ idx' = 1
    /\ UNCHANGED <<t, road_size, simulation_time, with_parking, lights, traffic_light_states,
                   lots, vehicle, vehicle_ids, vehicles_exiting, total_vehicles,
                   exited_vehicles, vehicle_wait_times, _all_vehicle_positions,
                   _parking_delay_cells, _parking_positions_to_agent_ids,
                   PARKING_DELAY_STEPS, light_run, parking_run, last>>

\* IntelligentAgent.handle_update; draw: random.random() > 0.5. The message it
\* sends reaches the TrafficLightAgent registered as traffic_light_1.
\* run_simulation registers the agent, and no statement of the program sends
\* it a message, so no step of the loop applies this handler.
IntelligentHandleUpdate(ls, draw) ==
    IF draw /\ 1 \in DOMAIN ls
        THEN [ls EXCEPT ![1] = TrafficLightHandleUpdate(@)]
    ELSE ls

\* update_parking_agents that also sends an UpdateCommand to traffic_light_1
update_parking_agents_forcing ==
    /\ pc = "parking"
    /\ lots' = [i \in DOMAIN lots |-> ParkingHandleUpdate(lots[i], t)]
    /\ lights' = IntelligentHandleUpdate(lights, TRUE)
    /\ pc' = "vehicles"
    /\ UNCHANGED <<t, idx, road_size, simulation_time, with_parking, traffic_light_states,
                   crossings, crossing_states, vehicle, vehicle_ids, vehicles_exiting,
                   total_vehicles, exited_vehicles, vehicle_wait_times,
                   _all_vehicle_positions, _parking_delay_cells,
                   _parking_positions_to_agent_ids, PARKING_DELAY_STEPS, budget,
                   light_run, parking_run, last>>

\* update_parking_agents: every lot handles UpdateCommand(current_time = t)
update_parking_agents ==
    /\ pc = "parking"
    /\ lots' = [i \in DOMAIN lots |-> ParkingHandleUpdate(lots[i], t)]
    /\ pc' = "vehicles"
    /\ UNCHANGED <<t, idx, road_size, simulation_time, with_parking, lights, traffic_light_states,
                   crossings, crossing_states, vehicle, vehicle_ids, vehicles_exiting,
                   total_vehicles, exited_vehicles, vehicle_wait_times,
                   _all_vehicle_positions, _parking_delay_cells,
                   _parking_positions_to_agent_ids, PARKING_DELAY_STEPS, budget,
                   light_run, parking_run, last>>

\* the draws of one handle_update before the move: the parking roll, and the
\* lot's int(random.gauss(...)) where the roll leads to a request
Draws(v, map) ==
    {[roll |-> FALSE, gauss |-> 1]}
    \cup (IF Position(v) \in DOMAIN map
            THEN {[roll |-> TRUE, gauss |-> g] : g \in 0 .. MaxStay}
          ELSE {[roll |-> TRUE, gauss |-> 1]})

\* the UpdateVehicleCommand(tls, cs) sent to vehicle vid: the agent is built if
\* this is its first message (VehicleAgent.__init__ registers it at its entry
\* point), handle_update runs, and the orchestrator reads exiting and
\* wait_time off the status line
VehicleUpdate(vid, tls, cs) ==
    LET constructed == vid \notin DOMAIN vehicle
    IN  \E entry \in (IF constructed THEN _find_random_entry_point ELSE {<<0, 0>>}) :
       \E heading \in (IF constructed THEN _get_direction_from_cell(grid[entry])
                       ELSE {"eastbound"}) :
         LET v0 == IF constructed THEN VehicleAgent(vid, entry, heading) ELSE vehicle[vid]
             reg0 == IF constructed THEN Register(_all_vehicle_positions, entry, vid)
                     ELSE _all_vehicle_positions
         IN  \E draw \in Draws(v0, _parking_positions_to_agent_ids) :
               LET b == BeforeMove(v0, reg0, _parking_delay_cells, lots,
                                   _parking_positions_to_agent_ids, PARKING_DELAY_STEPS,
                                   tls, cs,
                                   draw.roll, draw.gauss)
               IN  \E choice \in MoveChoices(b) :
                     LET a == AfterMove(b, choice, tls, cs)
                     IN  /\ vehicle' = DictSet(vehicle, vid, a.v)
                         /\ _all_vehicle_positions' = a.reg
                         /\ _parking_delay_cells' = a.delay
                         /\ lots' = a.lots
                         /\ IF a.exiting /\ vid \notin DOMAIN vehicles_exiting
                                THEN /\ vehicles_exiting' = DictSet(vehicles_exiting, vid, t + 1)
                                     /\ exited_vehicles' = exited_vehicles + 1
                            ELSE UNCHANGED <<vehicles_exiting, exited_vehicles>>
                         /\ vehicle_wait_times' =
                                IF vid \in DOMAIN vehicle_wait_times
                                   /\ a.v.wait_time > vehicle_wait_times[vid]
                                    THEN DictSet(vehicle_wait_times, vid, a.v.wait_time)
                                ELSE vehicle_wait_times
                         /\ last' =
                                [op |-> "vehicle", vid |-> vid, tick |-> t,
                                 full_at_start |-> last.full_at_start,
                                 constructed |-> constructed,
                                 from |-> Position(v0), to |-> Position(a.v),
                                 old_direction |-> v0.direction,
                                 direction |-> a.v.direction,
                                 state_before |-> ParkingState(v0),
                                 state_after |-> ParkingState(a.v),
                                 roll |-> draw.roll,
                                 ahead_free |->
                                    LET next == Ahead(Position(v0), v0.direction)
                                    IN  /\ InGrid(next[1], next[2])
                                        /\ grid[next].cell_type = "road"
                                        /\ Len(Occupants(reg0, next)) < grid[next].lanes,
                                 no_direction |->
                                    _get_possible_directions(
                                        b.v, Deregister(b.reg, Position(b.v), vid)
                                    ).directions = {},
                                 fallback |->
                                    /\ MoveBranch(b)
                                    /\ _get_possible_directions(
                                            b.v, Deregister(b.reg, Position(b.v), vid)
                                       ).direction # b.v.direction,
                                 delay_here |->
                                    IF Position(a.v) \in DOMAIN a.delay
                                        THEN a.delay[Position(a.v)] ELSE -1,
                                 listed |->
                                    Cardinality({i \in 1 .. Len(Occupants(a.reg, Position(a.v))) :
                                                    Occupants(a.reg, Position(a.v))[i] = vid}),
                                 requested |-> b.requested,
                                 accepted |-> b.accepted,
                                 can_move |-> b.can_move,
                                 move_branch |-> MoveBranch(b),
                                 forward_blocked |-> a.forward_blocked,
                                 exiting |-> a.exiting,
                                 wait_before |-> v0.wait_time,
                                 wait_after |-> a.v.wait_time,
                                 delay_cells |-> DOMAIN b.delay,
                                 lot |-> IF b.requested
                                            THEN _parking_positions_to_agent_ids[Position(v0)]
                                         ELSE 0,
                                 lot_before |->
                                    IF b.requested
                                        THEN lots[_parking_positions_to_agent_ids[Position(v0)]]
                                                .parked_vehicles
                                    ELSE EmptyDict,
                                 end_time |->
                                    IF b.accepted
                                        THEN a.lots[_parking_positions_to_agent_ids[Position(v0)]]
                                                .parked_vehicles[VehicleKey(vid)]
                                    ELSE 0]

\* the vehicle phase that goes through vehicle_ids from its end
process_vehicle_update_reversed ==
    /\ pc = "vehicles"
    /\ idx <= Len(vehicle_ids)
    /\ VehicleUpdate(vehicle_ids[Len(vehicle_ids) + 1 - idx], traffic_light_states, crossing_states)
    /\ parking_run' =
            DictSet(parking_run, vehicle_ids[Len(vehicle_ids) + 1 - idx],
                    ObserveParking(parking_run, vehicle_ids[Len(vehicle_ids) + 1 - idx],
                                   ParkingState(vehicle'[vehicle_ids[Len(vehicle_ids) + 1 - idx]])))
    /\ idx' = idx + 1
    /\ UNCHANGED <<t, pc, road_size, simulation_time, with_parking, lights, traffic_light_states,
                   crossings, crossing_states, vehicle_ids, total_vehicles,
                   _parking_positions_to_agent_ids, PARKING_DELAY_STEPS, budget,
                   light_run>>

\* process_vehicle_update for vehicle_ids[idx], with the tick's snapshots
process_vehicle_update ==
    /\ pc = "vehicles"
    /\ idx <= Len(vehicle_ids)
    /\ VehicleUpdate(vehicle_ids[idx], traffic_light_states, crossing_states)
    /\ parking_run' =
            DictSet(parking_run, vehicle_ids[idx],
                    ObserveParking(parking_run, vehicle_ids[idx],
                                   ParkingState(vehicle'[vehicle_ids[idx]])))
    /\ idx' = idx + 1
    /\ UNCHANGED <<t, pc, road_size, simulation_time, with_parking, lights, traffic_light_states,
                   crossings, crossing_states, vehicle_ids, total_vehicles,
                   _parking_positions_to_agent_ids, PARKING_DELAY_STEPS, budget,
                   light_run>>

\* the decrement that clears an entry one tick after it has reached zero
DecrementParkingDelay_late(delay) ==
    LET cells_to_clear == {cell \in DOMAIN delay : delay[cell] - 1 < 0}
    IN  [cell \in DOMAIN delay \ cells_to_clear |-> delay[cell] - 1]

\* "Decrement parking delay counters after each full update cycle"
DecrementParkingDelay(delay) ==
    LET cells_to_clear == {cell \in DOMAIN delay : delay[cell] - 1 <= 0}
    IN  [cell \in DOMAIN delay \ cells_to_clear |-> delay[cell] - 1]

\* the rest of the loop body after the vehicles: the decrement of the parking
\* delays (with parking, t > 0) and the display, then the next tick
EndTick ==
    /\ pc = "vehicles"
    /\ idx > Len(vehicle_ids)
    /\ _parking_delay_cells' =
            IF with_parking /\ t > 0 THEN DecrementParkingDelay(_parking_delay_cells)
            ELSE _parking_delay_cells
    /\ t' = t + 1
    /\ pc' = "begin"
    /\ UNCHANGED <<idx, road_size, simulation_time, with_parking, lights, traffic_light_states,
                   crossings, crossing_states, lots, vehicle, vehicle_ids,
                   vehicles_exiting, total_vehicles, exited_vehicles, vehicle_wait_times,
                   _all_vehicle_positions, _parking_positions_to_agent_ids,
                   PARKING_DELAY_STEPS, budget, light_run,
                   parking_run, last>>

\* the loop is over: display_metrics
Finish ==
    /\ pc = "begin"
    /\ t >= simulation_time
    /\ pc' = "done"
    /\ UNCHANGED <<t, idx, road_size, simulation_time, with_parking, lights, traffic_light_states,
                   crossings, crossing_states, lots, vehicle, vehicle_ids,
                   vehicles_exiting, total_vehicles, exited_vehicles, vehicle_wait_times,
                   _all_vehicle_positions, _parking_delay_cells,
                   _parking_positions_to_agent_ids, PARKING_DELAY_STEPS, budget,
                   light_run, parking_run, last>>

(***************************************************************************)
(* Spec: run_simulation_without_parking on the small grid.                 *)
(***************************************************************************)
\* the traffic_light_timing of run_simulation's default and of main.py
TrafficLightTimings == {<<5, 4>>, <<9, 4>>}

InitRun(time, parking, timing, spawns, activations) ==
    /\ t = 0
    /\ pc = "begin"
    /\ idx = 1
    /\ road_size = "small"
    /\ simulation_time = time
    /\ with_parking = parking
    /\ lights = register_traffic_lights(timing)
    /\ traffic_light_states = EmptyDict
    /\ crossings = register_pedestrian_crossings(pedestrian_crossing_timing)
    /\ crossing_states = EmptyDict
    /\ vehicle = EmptyDict
    /\ vehicle_ids = <<>>
    /\ vehicles_exiting = EmptyDict
    /\ total_vehicles = 0
    /\ exited_vehicles = 0
    /\ vehicle_wait_times = EmptyDict
    /\ _all_vehicle_positions = EmptyDict
    /\ _parking_delay_cells = EmptyDict
    /\ budget = [spawns |-> spawns, activations |-> activations]
    /\ light_run = [i \in DOMAIN traffic_light_positions |-> NoRun]
    /\ parking_run = EmptyDict
    /\ last = NoLast

Init ==
    /\ \E timing \in TrafficLightTimings :
            InitRun(SimulationTime, FALSE, timing, MaxVehicles, MaxActivations)
    /\ lots = EmptyDict
    /\ _parking_positions_to_agent_ids = EmptyDict
    /\ PARKING_DELAY_STEPS = 1

Next ==
    \/ BeginTick
    \/ update_traffic_lights
    \/ update_pedestrian_crossings
    \/ process_vehicle_update
    \/ EndTick
    \/ Finish

Spec == Init /\ [][Next]_vars

(***************************************************************************)
(* Claims.                                                                 *)
(***************************************************************************)
\* the tick is over: every vehicle of vehicle_ids has been advanced
EndOfTick == pc = "vehicles" /\ idx > Len(vehicle_ids)

\* C1: at the end of every tick, no Road cell lists more vehicle ids in
\* _all_vehicle_positions than it has lanes
C1_OccupancyWithinLanes ==
    EndOfTick =>
        \A p \in DOMAIN _all_vehicle_positions :
            grid[p].cell_type = "road" => Len(_all_vehicle_positions[p]) <= grid[p].lanes

\* the vehicle last advanced changed cell in that advance
LastMoved == last.op = "vehicle" /\ last.from # last.to

\* C2: a vehicle never moves into a cell whose traffic light is Red in the
\* tick's snapshot, whether it goes straight or turns into it
C2_NoMoveIntoRedLight ==
    LastMoved =>
        ~(grid[last.to].traffic_light /\ LightStateAt(traffic_light_states, last.to) = "red")

\* C3: a vehicle never moves into a cell whose pedestrian crossing is Active in
\* the tick's snapshot, whether it goes straight or turns into it
C3_NoMoveIntoActiveCrossing ==
    LastMoved =>
        ~(grid[last.to].pedestrian_crossing /\ CrossingActiveAt(crossing_states, last.to))

(***************************************************************************)
(* SpecRoute: the same run followed for longer, with fewer vehicles.       *)
(***************************************************************************)
InitRoute ==
    /\ \E timing \in TrafficLightTimings :
            InitRun(RouteTime, FALSE, timing, RouteVehicles, RouteActivations)
    /\ lots = EmptyDict
    /\ _parking_positions_to_agent_ids = EmptyDict
    /\ PARKING_DELAY_STEPS = 1

SpecRoute == InitRoute /\ [][Next]_vars


\* C5: at the end of a tick, every vehicle whose position and heading are a
\* (cell, direction) pair of the exit table is listed nowhere in
\* _all_vehicle_positions and has been flagged as exiting in this tick
AtExit(vid) ==
    /\ vid \in DOMAIN vehicle
    /\ _is_exit_point(vehicle[vid].row, vehicle[vid].col, vehicle[vid].direction)

C5_ExitLeavesRegistry ==
    EndOfTick =>
        \A vid \in Range(vehicle_ids) :
            AtExit(vid) =>
                /\ \A p \in DOMAIN _all_vehicle_positions :
                        vid \notin Range(_all_vehicle_positions[p])
                /\ vid \in DOMAIN vehicles_exiting
                /\ vehicles_exiting[vid] = t + 1

(***************************************************************************)
(* SpecLight: one TrafficLightAgent of any id and durations within the     *)
(* bounds, driven by nothing but UpdateCommands.                           *)
(***************************************************************************)
InitLight ==
    /\ \E light_id \in 1 .. MaxLightId :
       \E red_duration \in 1 .. MaxDuration :
       \E green_duration \in 1 .. MaxDuration :
            /\ lights = [i \in {light_id} |->
                            TrafficLightAgent(light_id, red_duration, green_duration)]
            /\ light_run = [i \in {light_id} |-> NoRun]
    /\ t = 0
    /\ pc = "light"
    /\ idx = 1
    /\ road_size = "small"
    /\ simulation_time = MaxLightUpdates
    /\ with_parking = FALSE
    /\ traffic_light_states = EmptyDict
    /\ crossings = EmptyDict
    /\ crossing_states = EmptyDict
    /\ lots = EmptyDict
    /\ vehicle = EmptyDict
    /\ vehicle_ids = <<>>
    /\ vehicles_exiting = EmptyDict
    /\ total_vehicles = 0
    /\ exited_vehicles = 0
    /\ vehicle_wait_times = EmptyDict
    /\ _all_vehicle_positions = EmptyDict
    /\ _parking_delay_cells = EmptyDict
    /\ _parking_positions_to_agent_ids = EmptyDict
    /\ PARKING_DELAY_STEPS = 1
    /\ budget = [spawns |-> 0, activations |-> 0]
    /\ parking_run = EmptyDict
    /\ last = NoLast

\* update_agent_state(runtime, light, UpdateCommand): one tick of the light
TrafficLightUpdate ==
    /\ pc = "light"
    /\ t < simulation_time
    /\ lights' = [i \in DOMAIN lights |-> TrafficLightHandleUpdate(lights[i])]
    /\ traffic_light_states' = [i \in DOMAIN lights |-> lights'[i].current_state]
    /\ light_run' = [i \in DOMAIN lights |-> ObserveLight(light_run[i], lights'[i].current_state)]
    /\ t' = t + 1
    /\ UNCHANGED <<pc, idx, road_size, simulation_time, with_parking, crossings, crossing_states,
                   lots, vehicle, vehicle_ids, vehicles_exiting, total_vehicles,
                   exited_vehicles, vehicle_wait_times, _all_vehicle_positions,
                   _parking_delay_cells, _parking_positions_to_agent_ids,
                   PARKING_DELAY_STEPS, budget, parking_run, last>>

SpecLight == InitLight /\ [][TrafficLightUpdate]_vars

Duration(l, state) == IF state = "green" THEN l.green_duration ELSE l.red_duration

\* C6: every run of one published state that began and ended with a change of
\* state lasted exactly that state's duration (green_duration ticks of green,
\* red_duration ticks of red), and no run lasts longer than its duration
C6_LightRunsLastTheirDuration ==
    \A i \in DOMAIN light_run :
        /\ light_run[i].last_len > 0 =>
                light_run[i].last_len = Duration(lights[i], light_run[i].last_state)
        /\ light_run[i].n > 0 =>
                /\ light_run[i].state = lights[i].current_state
                /\ light_run[i].len <= Duration(lights[i], light_run[i].state)

C6_Witness ==
    \E i \in DOMAIN light_run :
        /\ lights[i].green_duration > 1
        /\ lights[i].red_duration > 1
        /\ lights[i].green_duration # lights[i].red_duration
        /\ light_run[i].last_state = "green"
        /\ light_run[i].last_len = lights[i].green_duration
        /\ light_run[i].state = "red"
        /\ light_run[i].whole
        /\ light_run[i].len = lights[i].red_duration


(***************************************************************************)
(* SpecLot: one ParkingAgent as register_parking_agents builds it, for any *)
(* capacity, initial occupancy and average stay within the bounds, driven  *)
(* by the orchestrator's UpdateCommand(current_time = t) and by the        *)
(* ParkingRequestCommand a vehicle sends.                                  *)
(***************************************************************************)
InitLot ==
    /\ \E capacity \in 1 .. MaxCapacity :
       \E tenths \in 0 .. MaxTenths :
       \E avg_parking_time \in 1 .. MaxAvgParkingTime :
       \E ends \in [0 .. MaxCapacity - 1 -> 1 .. avg_parking_time * 2] :
            lots = [i \in {1} |->
                        ParkingAgent(1, capacity, avg_parking_time, <<1, 2>>,
                                     initial_vehicles(capacity, tenths), ends)]
    /\ t = 0
    /\ pc = "lot_update"
    /\ idx = 1
    /\ road_size = "small"
    /\ simulation_time = MaxLotTime
    /\ with_parking = TRUE
    /\ lights = EmptyDict
    /\ traffic_light_states = EmptyDict
    /\ crossings = EmptyDict
    /\ crossing_states = EmptyDict
    /\ vehicle = EmptyDict
    /\ vehicle_ids = <<>>
    /\ vehicles_exiting = EmptyDict
    /\ total_vehicles = 0
    /\ exited_vehicles = 0
    /\ vehicle_wait_times = EmptyDict
    /\ _all_vehicle_positions = EmptyDict
    /\ _parking_delay_cells = EmptyDict
    /\ _parking_positions_to_agent_ids = EmptyDict
    /\ PARKING_DELAY_STEPS = 1
    /\ budget = [spawns |-> 0, activations |-> 0]
    /\ light_run = EmptyDict
    /\ parking_run = EmptyDict
    /\ last = NoLast

\* update_parking_agents for the one lot: UpdateCommand(current_time = t)
LotUpdate ==
    /\ pc = "lot_update"
    /\ t < simulation_time
    /\ lots' = [i \in DOMAIN lots |-> ParkingHandleUpdate(lots[i], t)]
    /\ pc' = "lot_requests"
    /\ last' = [NoLast EXCEPT !.op = "update", !.tick = t, !.lot = 1,
                               !.lot_before = lots[1].parked_vehicles]
    /\ UNCHANGED <<t, idx, road_size, simulation_time, with_parking, lights, traffic_light_states,
                   crossings, crossing_states, vehicle, vehicle_ids, vehicles_exiting,
                   total_vehicles, exited_vehicles, vehicle_wait_times,
                   _all_vehicle_positions, _parking_delay_cells,
                   _parking_positions_to_agent_ids, PARKING_DELAY_STEPS, budget,
                   light_run, parking_run>>

\* a vehicle's request during tick t, as VehicleAgent.handle_update sends it:
\* ParkingRequestCommand(str(self.id), 0)
LotRequest ==
    /\ pc = "lot_requests"
    /\ \E vehicle_id \in 1 .. MaxLotVehicles :
       \E gauss \in 0 .. MaxStay :
            /\ lots' = [i \in DOMAIN lots |->
                            ParkingHandleRequest(lots[i], VehicleKey(vehicle_id), 0, gauss)]
            /\ last' = [NoLast EXCEPT
                            !.op = "request", !.vid = vehicle_id, !.tick = t,
                            !.requested = TRUE,
                            !.accepted = has_space(lots[1]),
                            !.lot = 1,
                            !.lot_before = lots[1].parked_vehicles,
                            !.end_time = IF has_space(lots[1])
                                            THEN lots'[1].parked_vehicles[VehicleKey(vehicle_id)]
                                         ELSE 0]
    /\ UNCHANGED <<t, pc, idx, road_size, simulation_time, with_parking, lights, traffic_light_states,
                   crossings, crossing_states, vehicle, vehicle_ids, vehicles_exiting,
                   total_vehicles, exited_vehicles, vehicle_wait_times,
                   _all_vehicle_positions, _parking_delay_cells,
                   _parking_positions_to_agent_ids, PARKING_DELAY_STEPS, budget,
                   light_run, parking_run>>

\* the tick ends and the next begins
LotEndTick ==
    /\ pc = "lot_requests"
    /\ t' = t + 1
    /\ pc' = "lot_update"
    /\ UNCHANGED <<idx, road_size, simulation_time, with_parking, lights, traffic_light_states,
                   crossings, crossing_states, lots, vehicle, vehicle_ids,
                   vehicles_exiting, total_vehicles, exited_vehicles, vehicle_wait_times,
                   _all_vehicle_positions, _parking_delay_cells,
                   _parking_positions_to_agent_ids, PARKING_DELAY_STEPS, budget,
                   light_run, parking_run, last>>

NextLot == LotUpdate \/ LotRequest \/ LotEndTick

SpecLot == InitLot /\ [][NextLot]_vars

\* C7: no lot ever holds more occupants than its capacity
C7_OccupantsWithinCapacity ==
    \A i \in DOMAIN lots :
        Cardinality(DOMAIN lots[i].parked_vehicles) <= lots[i].capacity

C7_Witness ==
    /\ last.op = "request"
    /\ last.accepted
    /\ lots[1].capacity > 1
    /\ Cardinality(DOMAIN lots[1].parked_vehicles) = lots[1].capacity
    /\ \E k \in DOMAIN lots[1].parked_vehicles : k[1] = "initial_vehicle"

\* C8: a request accepted at tick t records an exit tick greater than t
C8_ExitTickAfterRequestTick ==
    (last.requested /\ last.accepted) => last.end_time > last.tick


(***************************************************************************)
(* SpecParking and SpecStay: run_simulation_with_parking with its default  *)
(* traffic_light_timing, avg_parking_time and parking_initial_occupancy.   *)
(* No file of the program assigns _parking_positions_to_agent_ids, so as   *)
(* wired the runs start with it empty; they also start from hosted_lots,   *)
(* the parking cells mapped to the lots register_parking_agents builds for *)
(* them, which is the content handle_update's lookup reads.                *)
(***************************************************************************)
traffic_light_timing == <<5, 4>>
avg_parking_time == 5
parking_initial_occupancy == 3
parking_delay_steps == 1

\* register_parking_agents: one ParkingAgent per parking cell
register_parking_agents(avg, tenths, ends) ==
    [i \in DOMAIN parking_positions |->
        ParkingAgent(i, grid[parking_positions[i]].parking_capacity, avg,
                     parking_positions[i],
                     initial_vehicles(grid[parking_positions[i]].parking_capacity, tenths),
                     ends)]

\* every parking cell mapped to the id of the lot built for it
hosted_lots == [p \in ParkingCells |-> RowMajorIndex(ParkingCells, p)]

\* occupancies: the parking_initial_occupancy values (in tenths) and delays:
\* the parking_delay_steps values the run may be started with; every initial
\* occupant's random.randint(1, avg_parking_time * 2) is one of its extremes
InitParkingRun(time, spawns, activations, occupancies, delays) ==
    /\ InitRun(time, TRUE, traffic_light_timing, spawns, activations)
    /\ \E tenths \in occupancies :
       \E end \in {1, avg_parking_time * 2} :
            lots = register_parking_agents(avg_parking_time, tenths, [i \in 0 .. 9 |-> end])
    /\ _parking_positions_to_agent_ids \in {EmptyDict, hosted_lots}
    /\ PARKING_DELAY_STEPS \in delays

NextParking ==
    \/ BeginTick
    \/ update_traffic_lights
    \/ update_pedestrian_crossings
    \/ update_parking_agents
    \/ process_vehicle_update
    \/ EndTick
    \/ Finish

InitParking ==
    InitParkingRun(ParkingTime, ParkingVehicles, ParkingActivations,
                   {parking_initial_occupancy, 10}, {parking_delay_steps})

SpecParking == InitParking /\ [][NextParking]_vars

InitStay ==
    InitParkingRun(StayTime, StayVehicles, StayActivations,
                   {parking_initial_occupancy}, 0 .. MaxDelay)

SpecStay == InitStay /\ [][NextParking]_vars


\* C4: a vehicle in Driving state does not move into a cell that is in
\* _parking_delay_cells at the moment of the move
C4_NoMoveIntoParkingDelayCell ==
    (LastMoved /\ last.state_after = "Driving") => last.to \notin last.delay_cells

LotWasFull ==
    /\ last.op = "vehicle"
    /\ last.requested
    /\ Cardinality(DOMAIN last.lot_before) = lots[last.lot].capacity

\* C9: a request to a lot whose occupants equal its capacity is rejected, the
\* lot's occupants stay as they were, and the vehicle stays Driving and goes
\* on to the movement part of its update
C9_FullLotRejects ==
    LotWasFull =>
        /\ ~last.accepted
        /\ lots[last.lot].parked_vehicles = last.lot_before
        /\ last.state_after = "Driving"
        /\ last.move_branch = last.can_move

C9_Witness ==
    /\ LotWasFull
    /\ ~last.accepted
    /\ last.from # last.to

ExitingDelaySteps == IF PARKING_DELAY_STEPS > 1 THEN PARKING_DELAY_STEPS ELSE 1


C11_ParkedVehicleStaysPut ==
    (last.op = "vehicle" /\ (last.state_before = "Parked" \/ last.state_after = "Parked")) =>
        /\ last.from = last.to
        /\ last.direction = last.old_direction
        /\ ~last.move_branch


\* the cell ahead of the vehicle of the last update, along the heading it had
\* when the update began
LastAhead == Ahead(last.from, last.old_direction)

RedAhead ==
    /\ last.op = "vehicle"
    /\ last.state_before = "Driving"
    /\ LastAhead \in TrafficLightCells
    /\ LightStateAt(traffic_light_states, LastAhead) = "red"

GreenAhead ==
    /\ last.op = "vehicle"
    /\ last.state_before = "Driving"
    /\ LastAhead \in TrafficLightCells
    /\ LightStateAt(traffic_light_states, LastAhead) = "green"
    /\ last.ahead_free
    /\ ~CrossingActiveAt(crossing_states, LastAhead)

\* C12: a vehicle whose next cell along its heading has a red light keeps its
\* position and its wait_time grows by one in that tick; with the light green
\* in the tick's snapshot, the cell ahead free and no active crossing, it moves
C12_WaitsAtRedMovesAtGreen ==
    /\ RedAhead => (last.to = last.from /\ last.wait_after = last.wait_before + 1)
    /\ GreenAhead => last.to # last.from

\* a vehicle that waited two ticks before a red light moves when it is green
C12_Witness ==
    /\ GreenAhead
    /\ last.wait_before >= 2
    /\ last.to = LastAhead


(***************************************************************************)
(* SpecGreen: one vehicle on the network, updated again and again with     *)
(* every traffic light green and no crossing active, until it is flagged   *)
(* as exiting or GreenTime ticks have gone by.                             *)
(***************************************************************************)
InitGreen ==
    /\ t = 1
    /\ pc = "green"
    /\ idx = 1
    /\ road_size = "small"
    /\ simulation_time = GreenTime
    /\ with_parking = FALSE
    /\ lights = EmptyDict
    /\ traffic_light_states = [i \in DOMAIN traffic_light_positions |-> "green"]
    /\ crossings = EmptyDict
    /\ crossing_states = [i \in DOMAIN crossing_positions |-> FALSE]
    /\ lots = EmptyDict
    /\ vehicle = EmptyDict
    /\ vehicle_ids = <<1>>
    /\ vehicles_exiting = EmptyDict
    /\ total_vehicles = 1
    /\ exited_vehicles = 0
    /\ vehicle_wait_times = [vid \in {1} |-> 0]
    /\ _all_vehicle_positions = EmptyDict
    /\ _parking_delay_cells = EmptyDict
    /\ _parking_positions_to_agent_ids = EmptyDict
    /\ PARKING_DELAY_STEPS = 1
    /\ budget = [spawns |-> 0, activations |-> 0]
    /\ light_run = EmptyDict
    /\ parking_run = EmptyDict
    /\ last = NoLast

\* the tick's UpdateVehicleCommand to the vehicle, which the orchestrator sends
\* in every tick until the vehicle has been flagged as exiting
GreenUpdate ==
    /\ pc = "green"
    /\ t <= simulation_time
    /\ vehicle_ids[1] \notin DOMAIN vehicles_exiting
    /\ VehicleUpdate(vehicle_ids[1], traffic_light_states, crossing_states)
    /\ t' = t + 1
    /\ UNCHANGED <<pc, idx, road_size, simulation_time, with_parking, lights, traffic_light_states,
                   crossings, crossing_states, vehicle_ids, total_vehicles,
                   _parking_positions_to_agent_ids, PARKING_DELAY_STEPS, budget,
                   light_run, parking_run>>

SpecGreen == InitGreen /\ [][GreenUpdate]_vars

\* C13: with all lights green and no crossing active, the single vehicle has
\* been flagged as exiting once as many ticks have gone by as the longest way
\* through the network takes (Rows + Cols moves), whatever its draws
C13_ExitsWithinBound ==
    t > Rows + Cols => vehicle_ids[1] \in DOMAIN vehicles_exiting


\* C14: a Driving vehicle that finds no feasible direction in its update keeps
\* its position and has its wait_time raised by one
C14_NoDirectionWaits ==
    (last.op = "vehicle" /\ last.state_before = "Driving" /\ last.no_direction) =>
        /\ last.to = last.from
        /\ last.wait_after = last.wait_before + 1


\* the vehicle spawned in the running tick is already in vehicle_ids
SpawnedThisTick == \E i \in 1..Len(vehicle_ids) : vehicle_ids[i] = t

\* C15: the phases of a tick come in the order lights, crossings, lots, spawn,
\* vehicles, parking delays, retirement, metrics: while the lights, crossings
\* or lots of a tick are still to be advanced its vehicle has not been spawned,
\* and when the metrics are shown after the last tick every vehicle flagged for
\* removal has been retired
C15_PhaseOrder ==
    /\ pc \in {"lights", "crossings", "parking"} => ~SpawnedThisTick
    /\ pc = "done" => DOMAIN vehicles_exiting = {}


\* C16: from the first vehicle of a tick to the last, the light and crossing
\* states handed to the vehicles are the ones the lights and crossings took in
\* this tick's update
C16_VehiclesSeeThisTicksStates ==
    pc = "vehicles" =>
        /\ traffic_light_states = [i \in DOMAIN lights |-> lights[i].current_state]
        /\ crossing_states = [i \in DOMAIN crossings |-> crossings[i].active]
C16_Witness ==
    /\ pc = "vehicles"
    /\ idx > 2
    /\ last.op = "vehicle"
    /\ \E i \in DOMAIN crossing_states : crossing_states[i]
    /\ \E i, j \in DOMAIN traffic_light_states :
            traffic_light_states[i] = "red" /\ traffic_light_states[j] = "green"


(***************************************************************************)
(* SpecSize: run_simulation_without_parking from its first statement, for  *)
(* size classes whose grid is the 10 x 15 one.                             *)
(***************************************************************************)
\* the rows and columns of the RoadGrid initialize_grid builds
initialize_grid(size) ==
    IF size = "small" THEN [rows |-> 10, cols |-> 15]
    ELSE IF size = "medium" THEN [rows |-> 15, cols |-> 20]
    ELSE IF size = "large" THEN [rows |-> 20, cols |-> 30]
    ELSE [rows |-> 10, cols |-> 15]

\* the size classes a run of SpecSize is started with
SizeClasses == {"small", "tiny", "Large", ""}

InitSize ==
    /\ t = 0
    /\ pc = "startup"
    /\ idx = 1
    /\ road_size \in SizeClasses
    /\ simulation_time = SizeTime
    /\ with_parking = FALSE
    /\ lights = EmptyDict
    /\ traffic_light_states = EmptyDict
    /\ crossings = EmptyDict
    /\ crossing_states = EmptyDict
    /\ lots = EmptyDict
    /\ vehicle = EmptyDict
    /\ vehicle_ids = <<>>
    /\ vehicles_exiting = EmptyDict
    /\ total_vehicles = 0
    /\ exited_vehicles = 0
    /\ vehicle_wait_times = EmptyDict
    /\ _all_vehicle_positions = EmptyDict
    /\ _parking_delay_cells = EmptyDict
    /\ _parking_positions_to_agent_ids = EmptyDict
    /\ PARKING_DELAY_STEPS = 1
    /\ budget = [spawns |-> SizeVehicles, activations |-> SizeActivations]
    /\ light_run = [i \in DOMAIN traffic_light_positions |-> NoRun]
    /\ parking_run = EmptyDict
    /\ last = NoLast

\* the statements before the loop: initialize_grid, extract_special_positions
\* and the registration of the lights and crossings
Startup ==
    /\ pc = "startup"
    /\ initialize_grid(road_size) = [rows |-> Rows, cols |-> Cols]
    /\ lights' = register_traffic_lights(traffic_light_timing)
    /\ crossings' = register_pedestrian_crossings(pedestrian_crossing_timing)
    /\ pc' = "begin"
    /\ UNCHANGED <<t, idx, road_size, simulation_time, with_parking,
                   traffic_light_states, crossing_states, lots, vehicle, vehicle_ids,
                   vehicles_exiting, total_vehicles, exited_vehicles,
                   vehicle_wait_times, _all_vehicle_positions, _parking_delay_cells,
                   _parking_positions_to_agent_ids, PARKING_DELAY_STEPS, budget,
                   light_run, parking_run, last>>

NextSize ==
    \/ Startup
    \/ Next

SpecSize == InitSize /\ [][NextSize]_vars

\* C17: a run started with a size class other than small, medium or large
\* stops at startup: it never enters the loop and executes no tick
C17_UnknownSizeClassStops ==
    road_size \notin {"small", "medium", "large"} => pc = "startup"


\* how many times the registry lists the vehicle under the cell
Listings(cell, vid) ==
    Cardinality({i \in 1..Len(Occupants(_all_vehicle_positions, cell)) :
                    Occupants(_all_vehicle_positions, cell)[i] = vid})

\* C18: at the end of every tick every vehicle of the run that has not been
\* flagged as exiting is listed in _all_vehicle_positions once under the cell
\* it is on and under no other cell
C18_RegistryMatchesPositions ==
    EndOfTick =>
        \A vid \in Range(vehicle_ids) \ DOMAIN vehicles_exiting :
            \A cell \in DOMAIN _all_vehicle_positions \cup {Position(vehicle[vid])} :
                Listings(cell, vid) = IF cell = Position(vehicle[vid]) THEN 1 ELSE 0


\* C19: when the parking roll of a Driving vehicle succeeds on a cell with a
\* parking lot, the update sends a request to the lot and puts the cell into
\* _parking_delay_cells
C19_RollOnLotCellSendsRequest ==
    (/\ last.op = "vehicle"
     /\ last.state_before = "Driving"
     /\ last.roll
     /\ grid[last.from].parking) =>
        /\ last.requested
        /\ last.from \in last.delay_cells


(***************************************************************************)
(* SpecTurn: one vehicle followed from its entry point while other         *)
(* vehicles come to stand on some of the cells next to it; every light is  *)
(* green and no crossing is active.                                        *)
(***************************************************************************)
RoadCells == {p \in Cells : grid[p].cell_type = "road"}

\* the road cells next to p
Neighbours(p) == {Ahead(p, d) : d \in Directions} \cap RoadCells

\* the registry with the listings of vehicle 1 as they are in reg and every
\* cell of full taken on all lanes by vehicles of its own
StandingVehicles(reg, full) ==
    [q \in full \cup {c \in DOMAIN reg : 1 \in Range(reg[c])} |->
        (IF q \in full
            THEN [i \in 1 .. grid[q].lanes |-> 10 * RowMajorIndex(Cells, q) + i]
         ELSE <<>>)
        \o SelectSeq(Occupants(reg, q), LAMBDA id : id = 1)]

InitTurn ==
    /\ t = 1
    /\ pc = "turn"
    /\ idx = 1
    /\ road_size = "small"
    /\ simulation_time = TurnTime
    /\ with_parking = FALSE
    /\ lights = EmptyDict
    /\ traffic_light_states = [i \in DOMAIN traffic_light_positions |-> "green"]
    /\ crossings = EmptyDict
    /\ crossing_states = [i \in DOMAIN crossing_positions |-> FALSE]
    /\ lots = EmptyDict
    /\ vehicle = EmptyDict
    /\ vehicle_ids = <<1>>
    /\ vehicles_exiting = EmptyDict
    /\ total_vehicles = 1
    /\ exited_vehicles = 0
    /\ vehicle_wait_times = [vid \in {1} |-> 0]
    /\ _all_vehicle_positions = EmptyDict
    /\ _parking_delay_cells = EmptyDict
    /\ _parking_positions_to_agent_ids = EmptyDict
    /\ PARKING_DELAY_STEPS = 1
    /\ budget = [spawns |-> 0, activations |-> 0]
    /\ light_run = EmptyDict
    /\ parking_run = EmptyDict
    /\ last = NoLast

\* the tick's UpdateVehicleCommand to the vehicle
TurnUpdate ==
    /\ pc = "turn"
    /\ t <= simulation_time
    /\ vehicle_ids[1] \notin DOMAIN vehicles_exiting
    /\ VehicleUpdate(vehicle_ids[1], traffic_light_states, crossing_states)
    /\ t' = t + 1
    /\ pc' = "stand"
    /\ UNCHANGED <<idx, road_size, simulation_time, with_parking, lights,
                   traffic_light_states, crossings, crossing_states, vehicle_ids,
                   total_vehicles, _parking_positions_to_agent_ids,
                   PARKING_DELAY_STEPS, budget, light_run, parking_run>>

\* the updates of the other vehicles before the vehicle's next one, by what
\* they leave in the registry: some of the cells next to the vehicle are taken
Stand ==
    /\ pc = "stand"
    /\ \E full \in SUBSET Neighbours(Position(vehicle[vehicle_ids[1]])) :
            _all_vehicle_positions' = StandingVehicles(_all_vehicle_positions, full)
    /\ pc' = "turn"
    /\ UNCHANGED <<t, idx, road_size, simulation_time, with_parking, lights,
                   traffic_light_states, crossings, crossing_states, lots, vehicle,
                   vehicle_ids, vehicles_exiting, total_vehicles, exited_vehicles,
                   vehicle_wait_times, _parking_delay_cells,
                   _parking_positions_to_agent_ids, PARKING_DELAY_STEPS, budget,
                   light_run, parking_run, last>>

NextTurn ==
    \/ TurnUpdate
    \/ Stand

SpecTurn == InitTurn /\ [][NextTurn]_vars

\* C20: no update leaves a vehicle with the heading opposite to the one it had
\* before the update, the emergency fallback included
C20_NoUTurn ==
    last.op = "vehicle" =>
        ~(/\ direction_offsets[last.direction][1]
                    = -direction_offsets[last.old_direction][1]
          /\ direction_offsets[last.direction][2]
                    = -direction_offsets[last.old_direction][2])
C20_Witness ==
    /\ last.op = "vehicle"
    /\ last.fallback
    /\ last.direction # last.old_direction
    /\ last.to = Ahead(last.from, last.direction)


\* the vehicle's cell and heading after its last update are one of the four
\* exit triples
LastAtExitTriple ==
    \/ last.to = <<Rows - 1, left_c>> /\ last.direction = "southbound"
    \/ last.to = <<0, right_c>> /\ last.direction = "northbound"
    \/ last.to = <<0, left_mid_c>> /\ last.direction = "northbound"
    \/ last.to = <<Rows - 1, right_mid_c>> /\ last.direction = "southbound"

\* C21: an update flags the vehicle as exiting exactly when it leaves the
\* vehicle on the cell and with the heading of one of the four exit triples,
\* and every vehicle in vehicles_exiting is at such a triple
C21_FlaggedOnlyAtExitTriple ==
    /\ (last.op = "vehicle" /\ last.exiting) => LastAtExitTriple
    /\ (last.op = "vehicle" /\ last.move_branch /\ LastAtExitTriple) => last.exiting
    /\ \A vid \in DOMAIN vehicles_exiting : AtExit(vid)
C21_Witness ==
    /\ last.op = "vehicle"
    /\ last.exiting
    /\ last.to = <<0, left_mid_c>>
    /\ last.vid \in DOMAIN vehicles_exiting


\* C22: the update in which a vehicle's parking timer runs out leaves it in
\* ExitingDelay, with its cell in _parking_delay_cells at PARKING_DELAY_STEPS
\* and the vehicle listed under that cell; and no update that leaves a vehicle
\* in ExitingDelay moves it
C22_TimerExpiryStartsExitingDelay ==
    /\ (last.op = "vehicle" /\ last.state_before = "Parked" /\ last.state_after # "Parked") =>
            /\ last.state_after = "ExitingDelay"
            /\ last.delay_here = PARKING_DELAY_STEPS
            /\ last.listed >= 1
            /\ last.to = last.from
    /\ (last.op = "vehicle" /\ last.state_after = "ExitingDelay") =>
            /\ last.to = last.from
            /\ ~last.move_branch
C22_Witness ==
    /\ last.op = "vehicle"
    /\ last.state_before = "ExitingDelay"
    /\ last.state_after = "ExitingDelay"
    /\ PARKING_DELAY_STEPS = 2
    /\ last.can_move


\* the step from the vehicles of a tick to the next tick: every entry of
\* _parking_delay_cells above 1 is lowered by one and every other entry removed
DelaysLoweredOnce ==
    /\ DOMAIN _parking_delay_cells' =
            {cell \in DOMAIN _parking_delay_cells : _parking_delay_cells[cell] > 1}
    /\ \A cell \in DOMAIN _parking_delay_cells' :
            _parking_delay_cells'[cell] = _parking_delay_cells[cell] - 1

\* a step that leaves every entry alone, or a vehicle's update, which only
\* sets entries to PARKING_DELAY_STEPS or removes them
DelaysNotLowered ==
    \/ UNCHANGED _parking_delay_cells
    \/ /\ pc = "vehicles"
       /\ idx' = idx + 1
       /\ \A cell \in DOMAIN _parking_delay_cells' :
            \/ _parking_delay_cells'[cell] = PARKING_DELAY_STEPS
            \/ /\ cell \in DOMAIN _parking_delay_cells
               /\ _parking_delay_cells'[cell] = _parking_delay_cells[cell]

\* C23: the entries of _parking_delay_cells are lowered by one once per tick,
\* in the step that ends the tick, which removes the entries that reach zero;
\* so an entry set to N in tick t is there in the vehicle phases of ticks
\* t+1 .. t+N-1 and gone from tick t+N on, and between two ticks every entry is
\* at least 1
C23_DelaysLoweredOncePerTick ==
    /\ [](pc = "begin" => \A cell \in DOMAIN _parking_delay_cells :
                                _parking_delay_cells[cell] >= 1)
    /\ [][IF pc = "vehicles" /\ pc' = "begin" THEN DelaysLoweredOnce
          ELSE DelaysNotLowered]_vars
C23_Witness ==
    /\ pc = "begin"
    /\ PARKING_DELAY_STEPS = 2
    /\ \E cell \in DOMAIN _parking_delay_cells : _parking_delay_cells[cell] = 1


\* one update of crossing i: an active crossing in the last tick of its
\* active_duration becomes inactive with timer 0, an active crossing before
\* that stays active with its timer raised by one, and a crossing that becomes
\* active starts with timer 0
CrossingCountsItsDuration(i) ==
    IF crossings[i].active
        THEN IF crossings[i].timer + 1 = crossings[i].active_duration
                THEN ~crossings'[i].active /\ crossings'[i].timer = 0
             ELSE crossings'[i].active /\ crossings'[i].timer = crossings[i].timer + 1
    ELSE crossings'[i].timer = 0

\* C24: a crossing that has become active is published as active for
\* active_duration ticks in a row (with timer 0 .. active_duration - 1) and in
\* the next tick as inactive with timer 0
C24_ActiveForActiveDuration ==
    /\ [](\A i \in DOMAIN crossings :
            /\ crossings[i].active =>
                    crossings[i].timer \in 0 .. crossings[i].active_duration - 1
            /\ ~crossings[i].active => crossings[i].timer = 0
            /\ (pc = "vehicles" /\ i \in DOMAIN crossing_states) =>
                    crossing_states[i] = crossings[i].active)
    /\ [][IF pc = "crossings"
            THEN \A i \in DOMAIN crossings : CrossingCountsItsDuration(i)
          ELSE UNCHANGED crossings]_vars
C24_Witness ==
    /\ pc = "vehicles"
    /\ \E i \in DOMAIN crossings :
        /\ crossings[i].active_duration = 3
        /\ crossings[i].active
        /\ crossings[i].timer = 2
        /\ crossing_states[i]


\* C25: no update of the crossings turns a crossing from inactive to active
\* while a vehicle is listed in _all_vehicle_positions under the crossing's cell
C25_NoActivationUnderVehicle ==
    [][pc = "crossings" =>
            \A i \in DOMAIN crossings :
                (~crossings[i].active /\ crossings'[i].active) =>
                    crossing_positions[i] \notin DOMAIN _all_vehicle_positions]_vars


\* the last request came to a lot with fewer occupants than its capacity
RequestWithSpace ==
    /\ last.op = "request"
    /\ Cardinality(DOMAIN last.lot_before) < lots[last.lot].capacity

\* the last request left every occupant other than the requesting vehicle as
\* it was and the requesting vehicle among the occupants
OnlyRequesterAdded ==
    /\ DOMAIN lots[last.lot].parked_vehicles
            = DOMAIN last.lot_before \cup {VehicleKey(last.vid)}
    /\ \A k \in DOMAIN last.lot_before \ {VehicleKey(last.vid)} :
            lots[last.lot].parked_vehicles[k] = last.lot_before[k]

\* C26: a request that comes to a lot with fewer occupants than its capacity
\* is accepted and adds the requesting vehicle, and nothing else, to the
\* occupants, with an exit tick at least one after the tick of the request
C26_RequestWithSpaceAccepted ==
    RequestWithSpace =>
        /\ last.accepted
        /\ OnlyRequesterAdded
        /\ lots[last.lot].parked_vehicles[VehicleKey(last.vid)] >= last.tick + 1


\* the update of lot i at tick t: the occupants with an exit tick of t or
\* earlier are gone, every other occupant is there with its exit tick
LotAdvanced(i) ==
    /\ DOMAIN lots'[i].parked_vehicles =
            {k \in DOMAIN lots[i].parked_vehicles : lots[i].parked_vehicles[k] > t}
    /\ \A k \in DOMAIN lots'[i].parked_vehicles :
            lots'[i].parked_vehicles[k] = lots[i].parked_vehicles[k]

\* C27: the lots are updated in one step of each tick, with the tick as the
\* time, and the update of a lot removes the occupants whose exit tick is the
\* tick or earlier and nothing else; no other step removes an occupant
C27_LotUpdateRemovesTheDue ==
    [][IF pc \in {"parking", "lot_update"}
        THEN pc' # pc /\ t' = t /\ \A i \in DOMAIN lots : LotAdvanced(i)
       ELSE \A i \in DOMAIN lots :
                DOMAIN lots[i].parked_vehicles \subseteq DOMAIN lots'[i].parked_vehicles]_vars
C27_Witness ==
    /\ last.op = "update"
    /\ last.tick >= 1
    /\ DOMAIN lots[1].parked_vehicles # {}
    /\ DOMAIN lots[1].parked_vehicles # DOMAIN last.lot_before
    /\ \E k \in DOMAIN last.lot_before : k[1] = "vehicle"


\* the ids handed out so far: create_new_vehicle gives every vehicle an entry
\* of vehicle_wait_times, and no entry is ever deleted
SpawnedIds == DOMAIN vehicle_wait_times

\* C28: tick 0 spawns no vehicle and every later tick spawns exactly one, with
\* an id no earlier vehicle had, appended to the active list; no other step
\* spawns, so the counter stands at the number of ticks after tick 0 that have
\* begun and is the number of ticks less one when the run is over
C28_OneSpawnPerLaterTick ==
    /\ [](total_vehicles = Cardinality(SpawnedIds))
    /\ [](total_vehicles = IF pc \in {"begin", "done"} /\ t > 0 THEN t - 1 ELSE t)
    /\ [][IF pc = "begin" /\ pc' = "lights" /\ t > 0
            THEN /\ total_vehicles' = total_vehicles + 1
                 /\ Len(vehicle_ids') >= 1
                 /\ vehicle_ids'[Len(vehicle_ids')] \notin SpawnedIds
                 /\ SpawnedIds' = SpawnedIds \cup {vehicle_ids'[Len(vehicle_ids')]}
                 /\ \A k \in 1..(Len(vehicle_ids') - 1) : vehicle_ids'[k] \in SpawnedIds
           ELSE /\ total_vehicles' = total_vehicles
                /\ SpawnedIds' = SpawnedIds
                /\ \A k \in 1..Len(vehicle_ids') : vehicle_ids'[k] \in SpawnedIds]_vars

C28_Witness ==
    /\ pc = "done"
    /\ t = simulation_time
    /\ total_vehicles = simulation_time - 1
    /\ total_vehicles >= 2


\* the vehicles that have left the active list
RetiredIds == SpawnedIds \ Range(vehicle_ids)

\* C29: a vehicle flagged as exited in a tick is taken off the active list at
\* the head of the next tick, before the lights, the crossings, the lots and
\* the vehicles of that tick; a flagged vehicle is never advanced, a retired
\* vehicle never returns to the list, and the exited counter grows by one
\* exactly when a vehicle is flagged, once for each vehicle
C29_FlaggedVehicleRetiresNextTick ==
    /\ [](\A vid \in DOMAIN vehicles_exiting :
            /\ vid \in Range(vehicle_ids)
            /\ vehicles_exiting[vid] = IF pc \in {"begin", "done"} THEN t ELSE t + 1)
    /\ [](exited_vehicles = Cardinality(RetiredIds) + Cardinality(DOMAIN vehicles_exiting))
    /\ [][/\ RetiredIds \subseteq RetiredIds'
          /\ pc = "vehicles" /\ idx <= Len(vehicle_ids)
                => vehicle_ids[idx] \notin DOMAIN vehicles_exiting
          /\ pc = "begin" /\ pc' = "lights"
                => /\ DOMAIN vehicles_exiting \subseteq RetiredIds'
                   /\ vehicles_exiting' = EmptyDict
          /\ exited_vehicles' =
                exited_vehicles
                    + Cardinality(DOMAIN vehicles_exiting' \ DOMAIN vehicles_exiting)]_vars

C29_Witness ==
    /\ pc = "lights"
    /\ RetiredIds # {}
    /\ exited_vehicles = Cardinality(RetiredIds)
    /\ vehicles_exiting = EmptyDict


InIdOrder == \A i, j \in 1 .. Len(vehicle_ids) : i < j => vehicle_ids[i] < vehicle_ids[j]

\* C31: within a tick the vehicles are advanced one after another in increasing
\* order of id, each on the registry as the vehicles before it have left it; a
\* vehicle moves only into a cell that lists fewer vehicles than it has lanes
\* at the moment of its own advance, so a cell an earlier vehicle has filled is
\* closed to every later vehicle of the tick, and the move is listed at once
\* (a move into an exit is not listed: the vehicle leaves the registry there)
C31_AdvancesInIdOrderOnSharedRegistry ==
    /\ []InIdOrder
    /\ [][pc = "vehicles" /\ idx <= Len(vehicle_ids)
            => /\ idx' = idx + 1
               /\ last'.op = "vehicle"
               /\ last'.vid = vehicle_ids[idx]
               /\ last'.from # last'.to
                    => /\ Len(Occupants(_all_vehicle_positions, last'.to))
                            < grid[last'.to].lanes
                       /\ ~last'.exiting
                            => last'.vid \in Range(Occupants(_all_vehicle_positions', last'.to))]_vars

\* a later vehicle has entered a cell that was full when the vehicle phase of
\* the tick began, after an earlier vehicle of the list has been advanced
C31_Witness ==
    /\ pc = "vehicles"
    /\ idx >= 3
    /\ last.op = "vehicle"
    /\ last.vid = vehicle_ids[idx - 1]
    /\ last.from # last.to
    /\ last.to \in last.full_at_start
    /\ vehicle_ids[1] < last.vid
    /\ last.vid \in Range(Occupants(_all_vehicle_positions, last.to))


\* the vehicle of the last update began it on a cell whose light is red in the
\* tick's snapshot, or is not in the snapshot
RedAtOwnCell ==
    /\ last.op = "vehicle"
    /\ last.from \in TrafficLightCells
    /\ LightStateAt(traffic_light_states, last.from) = "red"

\* C32: a vehicle updated on a cell whose own light is red in the tick's
\* snapshot (a light missing from the snapshot counts as red) ends the update
\* on the same cell with its wait_time one higher
C32_WaitsAtRedOnOwnCell ==
    RedAtOwnCell => last.to = last.from /\ last.wait_after = last.wait_before + 1

C32_Witness ==
    /\ RedAtOwnCell
    /\ ~last.constructed
    /\ last.state_before = "Driving"
    /\ last.to = last.from
    /\ last.wait_after = last.wait_before + 1
    /\ last.wait_after >= 2


\* C33: a vehicle in Parked state is among the occupants of the lot that
\* accepted it: the lot does not evict it while it is Parked, and the vehicle
\* leaves Parked state no later than the lot drops it
C33_ParkedVehicleListedByItsLot ==
    \A vid \in DOMAIN vehicle :
        vehicle[vid].is_parked
            => /\ vehicle[vid].parking_agent_id \in DOMAIN lots
               /\ VehicleKey(vid)
                    \in DOMAIN lots[vehicle[vid].parking_agent_id].parked_vehicles


\* p and q are next to each other in a row or in a column
Adjacent(p, q) ==
    \/ p[1] = q[1] /\ (p[2] = q[2] + 1 \/ q[2] = p[2] + 1)
    \/ p[2] = q[2] /\ (p[1] = q[1] + 1 \/ q[1] = p[1] + 1)

\* C34: every vehicle is on a cell of the grid of type road at all times, and
\* an update leaves a vehicle on its cell or takes it to one of the four cells
\* next to it in its row or column
C34_OnRoadOneCellAtATime ==
    /\ \A vid \in DOMAIN vehicle :
            /\ InGrid(vehicle[vid].row, vehicle[vid].col)
            /\ grid[Position(vehicle[vid])].cell_type = "road"
    /\ last.op = "vehicle"
            => /\ last.to = Position(vehicle[last.vid])
               /\ InGrid(last.from[1], last.from[2])
               /\ grid[last.from].cell_type = "road"
               /\ last.to = last.from \/ Adjacent(last.from, last.to)

C34_Witness ==
    /\ last.op = "vehicle"
    /\ ~last.constructed
    /\ Adjacent(last.from, last.to)
    /\ last.direction # last.old_direction
    /\ grid[last.to].cell_type = "road"


(***************************************************************************)
(* SpecFleet: the run without parking followed until vehicles have left,   *)
(* with the default traffic_light_timing.                                  *)
(***************************************************************************)
InitFleet ==
    /\ InitRun(FleetTime, FALSE, <<5, 4>>, FleetVehicles, FleetActivations)
    /\ lots = EmptyDict
    /\ _parking_positions_to_agent_ids = EmptyDict
    /\ PARKING_DELAY_STEPS = 1

SpecFleet == InitFleet /\ [][Next]_vars

\* C35: at the end of every tick the counters add up: every vehicle spawned is
\* on the active list or retired, every vehicle counted as exited is retired
\* or flagged and waiting for its retirement, and no more vehicles have exited
\* than were spawned
C35_MetricsConserved ==
    EndOfTick =>
        /\ total_vehicles = Len(vehicle_ids) + Cardinality(RetiredIds)
        /\ exited_vehicles = Cardinality(RetiredIds) + Cardinality(DOMAIN vehicles_exiting)
        /\ exited_vehicles <= total_vehicles

C35_Witness ==
    /\ EndOfTick
    /\ Cardinality(RetiredIds) >= 1
    /\ Cardinality(DOMAIN vehicles_exiting) >= 1
    /\ total_vehicles >= 2
    /\ total_vehicles = Len(vehicle_ids) + Cardinality(RetiredIds)


\* the duration of the state the light is in
CurrentDuration(l) ==
    IF l.current_state = "red" THEN l.red_duration ELSE l.green_duration

\* C36: a light with red_duration >= 1 and green_duration >= 1 has, when it is
\* built and after every update, a timer from 0 up to the duration of its
\* current state less one
C36_TimerBelowDuration ==
    \A i \in DOMAIN lights :
        lights[i].red_duration >= 1 /\ lights[i].green_duration >= 1
            => /\ lights[i].current_state \in {"red", "green"}
               /\ 0 <= lights[i].timer
               /\ lights[i].timer < CurrentDuration(lights[i])

C36_Witness ==
    /\ t >= 2
    /\ \E i \in DOMAIN lights :
        /\ lights[i].red_duration >= 1 /\ lights[i].green_duration >= 1
        /\ CurrentDuration(lights[i]) >= 2
        /\ lights[i].timer = CurrentDuration(lights[i]) - 1
        /\ lights[i].current_state # TrafficLightAgent(i, 1, 1).current_state


(***************************************************************************)
(* SpecGrid: initialize_grid for the three size classes: the grid is built *)
(* and grid.display() goes through its cells row by row.                   *)
(***************************************************************************)
\* _frac_row / _frac_col on a grid of n rows / columns, fraction in hundredths
_frac(n, pct) == Clamp(0, n - 1, Round(pct * (n - 1), 100))

\* the cells steps 3a .. 3f of _build_grid lay a road on: the top and bottom
\* rows over every column, the middle row over columns 1 .. cols - 2, the
\* left, right and two inner columns over every row
OnRoadLine(rows, cols, r, c) ==
    \/ r \in {_frac(rows, 10), _frac(rows, 90)}
    \/ r = _frac(rows, 50) /\ 1 <= c /\ c <= cols - 2
    \/ c \in {0, cols - 1, _frac(cols, 20), _frac(cols, 80)}

\* _build_grid on a grid of rows x cols: the cell at (r, c) when the builder
\* returns (the road laid last on a cell owns it; add_street_parking turns
\* the cell of the parking building into a building and keeps its features)
_build_grid(rows, cols, r, c) ==
    LET layer ==
            IF c = _frac(cols, 80) THEN <<"road", "southbound">>
            ELSE IF c = _frac(cols, 20) THEN <<"road", "northbound">>
            ELSE IF r = _frac(rows, 50) /\ c >= 1 /\ c <= cols - 2 THEN <<"road", "eastbound">>
            ELSE IF c = cols - 1 THEN <<"road", "northbound">>
            ELSE IF c = 0 THEN <<"road", "southbound">>
            ELSE IF r = _frac(rows, 90) THEN <<"road", "eastbound">>
            ELSE IF r = _frac(rows, 10) THEN <<"road", "westbound">>
            ELSE <<"empty", "none">>
        building_r == _frac(rows, 45)
        building_c == _frac(cols, 53)
    IN  [cell_type |-> IF r = building_r /\ c = building_c THEN "building" ELSE layer[1],
         directions |-> IF layer[2] = "none" THEN {} ELSE {layer[2]}]

\* the size classes initialize_grid knows
KnownSizeClasses == {"small", "medium", "large"}

\* the cell grid.display() is about to print: the idx-th of the row-major scan
DisplayedCell ==
    <<(idx - 1) \div initialize_grid(road_size).cols,
      (idx - 1) % initialize_grid(road_size).cols>>

InitGrid ==
    /\ road_size \in KnownSizeClasses
    /\ pc = "initialize_grid"
    /\ idx = 1
    /\ t = 0
    /\ simulation_time = 0
    /\ with_parking = FALSE
    /\ lights = EmptyDict
    /\ traffic_light_states = EmptyDict
    /\ crossings = EmptyDict
    /\ crossing_states = EmptyDict
    /\ lots = EmptyDict
    /\ vehicle = EmptyDict
    /\ vehicle_ids = <<>>
    /\ vehicles_exiting = EmptyDict
    /\ total_vehicles = 0
    /\ exited_vehicles = 0
    /\ vehicle_wait_times = EmptyDict
    /\ _all_vehicle_positions = EmptyDict
    /\ _parking_delay_cells = EmptyDict
    /\ _parking_positions_to_agent_ids = EmptyDict
    /\ PARKING_DELAY_STEPS = 1
    /\ budget = [spawns |-> 0, activations |-> 0]
    /\ light_run = EmptyDict
    /\ parking_run = EmptyDict
    /\ last = NoLast

\* initialize_grid up to grid.display(): RoadGrid(rows, cols) builds the grid
RoadGrid ==
    /\ pc = "initialize_grid"
    /\ pc' = "display"
    /\ idx' = 1
    /\ UNCHANGED <<t, road_size, simulation_time, with_parking, lights,
                   traffic_light_states, crossings, crossing_states, lots, vehicle,
                   vehicle_ids, vehicles_exiting, total_vehicles, exited_vehicles,
                   vehicle_wait_times, _all_vehicle_positions, _parking_delay_cells,
                   _parking_positions_to_agent_ids, PARKING_DELAY_STEPS, budget,
                   light_run, parking_run, last>>

\* grid.display(): one cell of the row-major scan
display ==
    /\ pc = "display"
    /\ idx <= initialize_grid(road_size).rows * initialize_grid(road_size).cols
    /\ idx' = idx + 1
    /\ UNCHANGED <<t, pc, road_size, simulation_time, with_parking, lights,
                   traffic_light_states, crossings, crossing_states, lots, vehicle,
                   vehicle_ids, vehicles_exiting, total_vehicles, exited_vehicles,
                   vehicle_wait_times, _all_vehicle_positions, _parking_delay_cells,
                   _parking_positions_to_agent_ids, PARKING_DELAY_STEPS, budget,
                   light_run, parking_run, last>>

NextGrid ==
    \/ RoadGrid
    \/ display

SpecGrid == InitGrid /\ [][NextGrid]_vars

\* the cell about to be displayed lies on one of the seven roads
DisplayedOnRoadLine ==
    /\ pc = "display"
    /\ idx <= initialize_grid(road_size).rows * initialize_grid(road_size).cols
    /\ OnRoadLine(initialize_grid(road_size).rows, initialize_grid(road_size).cols,
                  DisplayedCell[1], DisplayedCell[2])

\* C37: on the grid of each size class every cell of every road the builder
\* has laid, from the road's first cell to its last, is of type road and has
\* at least one allowed direction
C37_RoadsUnbroken ==
    DisplayedOnRoadLine =>
        LET cell == _build_grid(initialize_grid(road_size).rows,
                                initialize_grid(road_size).cols,
                                DisplayedCell[1], DisplayedCell[2])
        IN  cell.cell_type = "road" /\ cell.directions # {}

=============================================================================
